---- MODULE Spec2Model ----
(***************************************************************************)
(* State-machine model of bbconf's BedAgentBedFile (modules/bedfiles.py)   *)
(* on top of BedBaseConfig (config_parser/bedbaseconfig.py): the           *)
(* multi-store write path add(), the read path get(), delete(), and the    *)
(* object-store key conventions.                                           *)
(*                                                                         *)
(* Encoding of Python values:                                              *)
(*   str            a sequence of one-character strings                    *)
(*   None / value   PyNone / Some(v)  (for Optional fields and arguments)  *)
(*   dict           a set of <<key, value>> pairs, or a record             *)
(*   exception      its class name, "" when no exception is pending        *)
(***************************************************************************)
EXTENDS Integers, Sequences, FiniteSets, TLC

\* ------------------------------------------------------------------------
\* Python values
\* ------------------------------------------------------------------------
PyNone == [isNone |-> TRUE]

Some(v) == [isNone |-> FALSE, v |-> v]

\* truthiness of an Optional[str]: None and "" are both falsy
TruthyOptStr(o) == (~o.isNone) /\ o.v # <<>>

SetMax(S) == CHOOSE m \in S : \A x \in S : x <= m

\* os.path.basename: everything after the last "/"
Basename(p) ==
    LET slashes == {i \in 1..Len(p) : p[i] = "/"}
    IN  IF slashes = {} THEN p ELSE SubSeq(p, SetMax(slashes) + 1, Len(p))

\* os.path.join of two components: an absolute second component discards
\* the first; otherwise exactly one separator is placed between them
Join2(a, b) ==
    IF b # <<>> /\ b[1] = "/" THEN b
    ELSE IF a = <<>> \/ a[Len(a)] = "/" THEN a \o b
    ELSE a \o <<"/">> \o b

RECURSIVE PathJoin(_)
\* os.path.join(parts[1], parts[2], ...)
PathJoin(parts) ==
    IF Len(parts) = 1 THEN parts[1]
    ELSE Join2(PathJoin(SubSeq(parts, 1, Len(parts) - 1)), parts[Len(parts)])

\* ------------------------------------------------------------------------
\* Program constants
\* ------------------------------------------------------------------------
BIGBED_PATH_FOLDER == <<"b","i","g","b","e","d","_","f","i","l","e","s">>

BED_PATH_FOLDER == <<"b","e","d","_","f","i","l","e","s">>

PLOTS_PATH_FOLDER == <<"s","t","a","t","s">>

\* field names of the BedFiles model, in declaration order
BedFilesFields == <<"bed_file", "bigbed_file">>

\* field names of the BedPlots model, in declaration order
BedPlotsFields == <<"chrombins", "gccontent">>

SeqRange(s) == {s[i] : i \in 1..Len(s)}

\* ------------------------------------------------------------------------
\* Environment: identifiers, local files, caller inputs
\* ------------------------------------------------------------------------
IdA == <<"a","b","c","1","2","3">>

IdB == <<"a","b","d">>

Ids == {IdA, IdB}

PathXBed == <<"/","t","m","p","/","x",".","b","e","d">>

PathBigBed == <<"/","t","m","p","/","x",".","b","b">>

PathShort == <<"/","t","m","p","/","y">>

\* another file with the base name x.bed, in another directory
PathXBedOther == <<"/","o","/","x",".","b","e","d">>

PathGone == <<"/","t","m","p","/","n",".","b","e","d">>

OutDir == <<"/","o">>

PlotPng == <<"c",".","p","n","g">>

ThumbPng == <<"t",".","p","n","g">>

\* the local disk: path -> size in bytes; a path outside the domain does
\* not exist
LocalFS ==
    (PathXBed :> 7) @@ (PathBigBed :> 9) @@ (PathShort :> 3)
    @@ (Join2(OutDir, PlotPng) :> 5) @@ (Join2(OutDir, ThumbPng) :> 2)
    @@ (PathXBedOther :> 4)

\* raw FileModel dicts as a caller writes them
RawDesc(name, path, thumb) ==
    [name |-> Some(name), path |-> path, path_thumbnail |-> thumb,
     description |-> PyNone, size |-> PyNone]

BedDesc == RawDesc(<<"b","e","d">>, Some(PathXBed), PyNone)

BigBedDesc == RawDesc(<<"b","b">>, Some(PathBigBed), PyNone)

ShortDesc == RawDesc(<<"b","e","d">>, Some(PathShort), PyNone)

GoneDesc == RawDesc(<<"b","e","d">>, Some(PathGone), PyNone)

NoPathDesc == RawDesc(<<"b","e","d">>, PyNone, PyNone)

PlotDesc == RawDesc(<<"c","b">>, Some(PlotPng), PyNone)

PlotThumbDesc == RawDesc(<<"c","b">>, Some(PlotPng), Some(ThumbPng))

PlotEmptyPathDesc == RawDesc(<<"c","b">>, Some(<<>>), Some(ThumbPng))

\* raw BedStats dicts: an int, a numeric string, a non-numeric string
StatsInt1 == [number_of_regions |-> [kind |-> "int", n |-> 1, s |-> <<>>]]

StatsStr2 == [number_of_regions |-> [kind |-> "str", n |-> 0, s |-> <<"2">>]]

StatsJunk == [number_of_regions |-> [kind |-> "str", n |-> 0, s |-> <<"x">>]]

ClsHg38 == [genome_alias |-> Some(<<"h","g","3","8">>)]

EmptyDoc == {}

Doc1 == {<<"cell_type", "K562">>}

Doc2 == {<<"cell_type", "HepG2">>}

NoFiles == [bed_file |-> PyNone, bigbed_file |-> PyNone]

NoPlots == [chrombins |-> PyNone, gccontent |-> PyNone]

\* what the caller passes besides identifier, flags and overwrite
Payload(stats, metadata, plots, files, classification, local_path) ==
    [stats |-> stats, metadata |-> metadata, plots |-> plots, files |-> files,
     classification |-> classification, local_path |-> local_path]

GoodPayload ==
    Payload(Some(StatsInt1), Some(Doc1),
            Some([NoPlots EXCEPT !.chrombins = Some(PlotThumbDesc),
                                 !.gccontent = Some(PlotDesc)]),
            Some([NoFiles EXCEPT !.bed_file = Some(BedDesc),
                                 !.bigbed_file = Some(BigBedDesc)]),
            Some(ClsHg38), Some(OutDir))

\* payloads that pass validation:
\*   the full one;
\*   a numeric string, empty metadata, one file, one plot without thumbnail;
\*   no files and a plot whose path is "";
\*   a bigbed file that is not on disk, no plots;
\*   a bed file with a one-character base name;
\*   local_path left at None
ValidPayloads ==
    { GoodPayload,
      [GoodPayload EXCEPT !.stats = Some(StatsStr2),
                          !.metadata = Some(EmptyDoc),
                          !.plots = Some([NoPlots EXCEPT !.gccontent = Some(PlotDesc)]),
                          !.files = Some([NoFiles EXCEPT !.bed_file = Some(BedDesc)])],
      [GoodPayload EXCEPT
          !.plots = Some([NoPlots EXCEPT !.chrombins = Some(PlotEmptyPathDesc)]),
          !.files = Some(NoFiles)],
      [GoodPayload EXCEPT
          !.plots = Some(NoPlots),
          !.files = Some([NoFiles EXCEPT !.bed_file = Some(BedDesc),
                                         !.bigbed_file = Some(GoneDesc)])],
      [GoodPayload EXCEPT
          !.plots = Some(NoPlots),
          !.files = Some([NoFiles EXCEPT !.bed_file = Some(ShortDesc)])],
      [GoodPayload EXCEPT
          !.plots = Some([NoPlots EXCEPT !.gccontent = Some(PlotDesc)]),
          !.files = Some(NoFiles),
          !.local_path = PyNone] }

\* payloads with one argument of the wrong shape or left at its default
InvalidPayloads ==
    { [GoodPayload EXCEPT !.stats = Some(StatsJunk)],
      [GoodPayload EXCEPT !.plots = PyNone],
      [GoodPayload EXCEPT !.metadata = PyNone],
      [GoodPayload EXCEPT !.classification = PyNone],
      [GoodPayload EXCEPT
          !.files = Some([NoFiles EXCEPT !.bed_file = Some(NoPathDesc)])] }

Payloads == ValidPayloads \cup InvalidPayloads

\* ------------------------------------------------------------------------
\* Typed models (pydantic)
\* ------------------------------------------------------------------------
DigitVal(c) ==
    CASE c = "0" -> 0 [] c = "1" -> 1 [] c = "2" -> 2 [] c = "3" -> 3
      [] c = "4" -> 4 [] c = "5" -> 5 [] c = "6" -> 6 [] c = "7" -> 7
      [] c = "8" -> 8 [] c = "9" -> 9 [] OTHER -> -1

IsDigits(s) == s # <<>> /\ \A i \in 1..Len(s) : DigitVal(s[i]) >= 0

RECURSIVE ParseInt(_)
ParseInt(s) ==
    IF s = <<>> THEN 0
    ELSE 10 * ParseInt(SubSeq(s, 1, Len(s) - 1)) + DigitVal(s[Len(s)])

\* an int field accepts an int or a numeric string
IntFieldOk(raw) == raw.kind = "int" \/ (raw.kind = "str" /\ IsDigits(raw.s))

CoerceInt(raw) == IF raw.kind = "int" THEN raw.n ELSE ParseInt(raw.s)

\* BedStats(**stats)
BedStatsOk(stats) == IntFieldOk(stats.number_of_regions)

BedStats(stats) == [number_of_regions |-> Some(CoerceInt(stats.number_of_regions))]

\* BedClassification(**classification)
BedClassification(cls) == [genome_alias |-> cls.genome_alias]

\* BedPEPHub(**metadata) and its model_dump(): a free-form document
BedPEPHub(metadata) == metadata

\* FileModel(**d): name and path are required strings
FileModelOk(d) == (~d.name.isNone) /\ (~d.path.isNone)

FileModel(name, path, path_thumbnail, description, size) ==
    [name |-> name, path |-> path, path_thumbnail |-> path_thumbnail,
     description |-> description, size |-> size]

\* an Optional[FileModel] field given a raw dict or nothing
OptFileModelOk(o) == o.isNone \/ FileModelOk(o.v)

OptFileModel(o) ==
    IF o.isNone THEN PyNone
    ELSE Some(FileModel(o.v.name.v, o.v.path.v, o.v.path_thumbnail,
                        o.v.description, o.v.size))

\* BedFiles(**files)
BedFilesOk(files) == \A k \in SeqRange(BedFilesFields) : OptFileModelOk(files[k])

BedFiles(files) == [k \in SeqRange(BedFilesFields) |-> OptFileModel(files[k])]

\* BedPlots(**plots)
BedPlotsOk(plots) == \A k \in SeqRange(BedPlotsFields) : OptFileModelOk(plots[k])

BedPlots(plots) == [k \in SeqRange(BedPlotsFields) |-> OptFileModel(plots[k])]

\* ------------------------------------------------------------------------
\* State
\* ------------------------------------------------------------------------
\* the callers of the agent; MainProc is the one sequential caller
Procs == {"p1", "p2"}

MainProc == "p1"

\* number of calls that write to a store explored in one behaviour
MaxCalls == 2

\* largest limit given to text_to_bed_search
MaxLimit == 2

VARIABLES
    handles,    \* BedBaseConfig: which client handles were constructed
    bed,        \* relational Bed table: identifier -> row
    filesTbl,   \* relational Files table: a set of rows
    s3,         \* object store: key -> uploaded object
    qdrant,     \* vector index: identifier -> entry
    phc,        \* external metadata service: identifier -> document
    call,       \* per caller: the add() invocation in progress
    ret,        \* what the last get() or delete() returned or raised
    ncalls      \* calls that write to a store started so far

vars == <<handles, bed, filesTbl, s3, qdrant, phc, call, ret, ncalls>>

stores == <<bed, filesTbl, s3, qdrant, phc>>

IdleCall == [pc |-> "idle"]

NoRet == [op |-> "none", identifier |-> <<>>, err |-> "", view |-> PyNone]

EmptyTable == [k \in {} |-> PyNone]

\* table[key] := value (insert or overwrite)
Put(table, key, value) == (key :> value) @@ table

\* a BedBaseConfig whose __init__ returned: state "ok", one flag per client
\* handle (FALSE: the handle is None), and the clients a warning was issued
\* for
Context(qdrant_h, t2bsi_h, r2v_h, phc_h, boto3_h, warned) ==
    [state |-> "ok", err |-> "", qdrant |-> qdrant_h, t2bsi |-> t2bsi_h,
     r2v |-> r2v_h, phc |-> phc_h, boto3 |-> boto3_h, warned |-> warned]

\* BedBaseConfig.__init__ with every client constructed: no handle is None
AllHandles == Context(TRUE, TRUE, TRUE, TRUE, TRUE, {})

\* no BedBaseConfig has been constructed yet
NoContext ==
    [state |-> "new", err |-> "", qdrant |-> FALSE, t2bsi |-> FALSE,
     r2v |-> FALSE, phc |-> FALSE, boto3 |-> FALSE, warned |-> {}]

\* __init__ raised err: there is no context object
RaisedContext(err) == [NoContext EXCEPT !.state = "raised", !.err = err]

Init ==
    /\ handles = AllHandles
    /\ bed = EmptyTable
    /\ filesTbl = {}
    /\ s3 = EmptyTable
    /\ qdrant = EmptyTable
    /\ phc = EmptyTable
    /\ call = [p \in Procs |-> IdleCall]
    /\ ret = NoRet
    /\ ncalls = 0

\* ------------------------------------------------------------------------
\* BedBaseConfig.__init__
\* ------------------------------------------------------------------------
\* what the constructor of each client may do: "" is success, anything else
\* the class of the exception it raises
QdrantInitOutcomes == {"", "ResponseHandlingException", "UnexpectedResponse"}

T2bsiInitOutcomes == {"", "Exception"}

R2vInitOutcomes == {"", "OSError"}

PhcInitOutcomes == {"", "Exception"}

Boto3InitOutcomes == {"", "Exception"}

\* _init_qdrant_backend catches ResponseHandlingException alone
QdrantInitCaught(e) == e = "ResponseHandlingException"

\* the clients whose failure was caught and reported with warnings.warn
InitWarned(q, t, h, b) ==
    {n \in {"qdrant", "t2bsi", "phc", "boto3"} :
        \/ n = "qdrant" /\ q # ""
        \/ n = "t2bsi" /\ t # ""
        \/ n = "phc" /\ h # ""
        \/ n = "boto3" /\ b # ""}

\* the statements of __init__ in order, given the outcome of each client
\* constructor: an exception that is not caught ends it
InitResult(q, t, r, h, b) ==
    IF q # "" /\ ~QdrantInitCaught(q) THEN RaisedContext(q)
    ELSE IF r # "" THEN RaisedContext(r)
    ELSE Context(q = "", t = "", TRUE, h = "", b = "", InitWarned(q, t, h, b))

\* BedBaseConfig(config) for a configuration that parses; ret keeps what
\* each client constructor did
Construct ==
    /\ handles.state = "new"
    /\ \E q \in QdrantInitOutcomes, t \in T2bsiInitOutcomes, r \in R2vInitOutcomes,
          h \in PhcInitOutcomes, b \in Boto3InitOutcomes :
          /\ handles' = InitResult(q, t, r, h, b)
          /\ ret' = [op |-> "init", err |-> InitResult(q, t, r, h, b).err,
                     outcomes |-> [qdrant |-> q, t2bsi |-> t, r2v |-> r,
                                   phc |-> h, boto3 |-> b]]
    /\ UNCHANGED <<stores, call, ncalls>>

\* the context exists: its accessors can be used
Ready == handles.state = "ok"

\* ------------------------------------------------------------------------
\* BedAgentBedFile.add
\* ------------------------------------------------------------------------
\* an exception leaves add(): nothing is caught, no later statement runs
Fail(c, e) == [c EXCEPT !.pc = "failed", !.err = e, !.at = c.pc]

\* mutant of NextPc: the vector index is written before the metadata service
NextPcVectorFirst(pc, upload_s3) ==
    CASE pc = "validate" -> "qdrant"
      [] pc = "qdrant" -> "pephub"
      [] pc = "pephub" -> IF upload_s3 THEN "s3_bed" ELSE "commit"

\* the order of add()'s statements after validation: upload_pephub, then
\* upload_qdrant, then the uploads to s3 if requested, then the session
NextPc(pc, upload_s3) ==
    CASE pc = "validate" -> "pephub"
      [] pc = "pephub" -> "qdrant"
      [] pc = "qdrant" -> IF upload_s3 THEN "s3_bed" ELSE "commit"

\* the five model constructions, in source order; "" when all succeed.
\* M(**None) raises TypeError, a dict of the wrong shape ValidationError
ValidateError(a) ==
    IF a.stats.isNone THEN "TypeError"
    ELSE IF ~BedStatsOk(a.stats.v) THEN "ValidationError"
    ELSE IF a.plots.isNone THEN "TypeError"
    ELSE IF ~BedPlotsOk(a.plots.v) THEN "ValidationError"
    ELSE IF a.files.isNone THEN "TypeError"
    ELSE IF ~BedFilesOk(a.files.v) THEN "ValidationError"
    ELSE IF a.metadata.isNone THEN "TypeError"
    ELSE IF a.classification.isNone THEN "TypeError"
    ELSE ""

\* the frame of a call that has bound its arguments and evaluated nothing
Frame(identifier, payload, add_to_qdrant, upload_pephub, upload_s3, overwrite) ==
    [pc |-> "validate", identifier |-> identifier, args |-> payload,
     add_to_qdrant |-> add_to_qdrant, upload_pephub |-> upload_pephub,
     upload_s3 |-> upload_s3, overwrite |-> overwrite,
     stats |-> PyNone, plots |-> PyNone, files |-> PyNone,
     metadata |-> PyNone, classification |-> PyNone,
     plots_output |-> PyNone, pi |-> 0, file_s3_path |-> PyNone,
     err |-> "", at |-> "", log |-> <<>>]

\* stats = BedStats(**stats) ... classification = BedClassification(**...)
Validated(c) ==
    IF ValidateError(c.args) # "" THEN Fail(c, ValidateError(c.args))
    ELSE [c EXCEPT !.pc = NextPc("validate", c.upload_s3),
                   !.stats = BedStats(c.args.stats.v),
                   !.plots = BedPlots(c.args.plots.v),
                   !.files = BedFiles(c.args.files.v),
                   !.metadata = BedPEPHub(c.args.metadata.v),
                   !.classification = BedClassification(c.args.classification.v)]

\* mutant of AddBegin: a call waits while another caller's add() for the
\* same identifier is in progress
AddBeginSerialised(p, identifier, payload, add_to_qdrant, upload_pephub, upload_s3, overwrite) ==
    /\ call[p].pc = "idle"
    /\ \A q \in Procs \ {p} :
          call[q].pc \in {"idle", "done", "failed"} \/ call[q].identifier # identifier
    /\ ncalls < MaxCalls
    /\ ncalls' = ncalls + 1
    /\ call' = [call EXCEPT ![p] =
           Validated(Frame(identifier, payload, add_to_qdrant, upload_pephub,
                           upload_s3, overwrite))]
    /\ ret' = NoRet
    /\ UNCHANGED <<handles, stores>>

\* the call is entered and the arguments are validated: no store is
\* involved up to here
AddBegin(p, identifier, payload, add_to_qdrant, upload_pephub, upload_s3, overwrite) ==
    /\ call[p].pc = "idle"
    /\ ncalls < MaxCalls
    /\ ncalls' = ncalls + 1
    /\ call' = [call EXCEPT ![p] =
           Validated(Frame(identifier, payload, add_to_qdrant, upload_pephub,
                           upload_s3, overwrite))]
    /\ ret' = NoRet
    /\ UNCHANGED <<handles, stores>>

\* phc.sample.create: a None client, a conflict without overwrite, a
\* service error, or success
PhcCreateOutcomes(identifier, overwrite) ==
    IF ~handles.phc THEN {"AttributeError"}
    ELSE IF identifier \in DOMAIN phc /\ ~overwrite THEN {"ResponseError"}
    ELSE {"", "ResponseError"}

\* upload_pephub(identifier, metadata.model_dump(), overwrite)
AddPephub(p) ==
    LET c == call[p]
    IN  /\ c.pc = "pephub"
        /\ IF (~c.upload_pephub) \/ c.metadata = {}
           THEN /\ call' = [call EXCEPT ![p].pc = NextPc("pephub", c.upload_s3)]
                /\ UNCHANGED phc
           ELSE \E e \in PhcCreateOutcomes(c.identifier, c.overwrite) :
                  IF e # ""
                  THEN /\ call' = [call EXCEPT ![p] = Fail(c, e)]
                       /\ UNCHANGED phc
                  ELSE /\ phc' = Put(phc, c.identifier, c.metadata)
                       /\ call' = [call EXCEPT ![p].pc = NextPc("pephub", c.upload_s3),
                                               ![p].log = Append(c.log, "pephub")]
        /\ UNCHANGED <<handles, bed, filesTbl, s3, qdrant, ret, ncalls>>

\* the bed_file argument of upload_qdrant: a str, a RegionSet, anything else
StrArg(path) == [kind |-> "str", path |-> path]

RegionSetArg(path) == [kind |-> "RegionSet", path |-> path]

OtherArg == [kind |-> "other", path |-> <<>>]

\* mutant of UploadQdrantOutcomes: the type of bed_file is not tested
UploadQdrantOutcomesUntested(bed_file) ==
    IF bed_file.kind = "str" /\ bed_file.path \notin DOMAIN LocalFS
    THEN {"FileNotFoundError"}
    ELSE IF ~handles.qdrant THEN {"AttributeError"}
    ELSE {"", "ResponseHandlingException"}

\* upload_qdrant: the isinstance tests, RegionSet(bed_file) reading the
\* file, the encoding, then _qdrant_engine.load on the handle
UploadQdrantOutcomes(bed_file) ==
    IF bed_file.kind \notin {"str", "RegionSet"} THEN {"BedBaseConfError"}
    ELSE IF bed_file.kind = "str" /\ bed_file.path \notin DOMAIN LocalFS
    THEN {"FileNotFoundError"}
    ELSE IF ~handles.qdrant THEN {"AttributeError"}
    ELSE {"", "ResponseHandlingException"}

\* whether reg_2_vec_obj.encode was reached in a call that ended with e
Encoded(e) == e \notin {"BedBaseConfError", "FileNotFoundError"}

\* the entry load() upserts: the embedding stands for the regions it was
\* computed from
QdrantEntry(path, payload) == [vector |-> path, payload |-> payload]

\* upload_qdrant(identifier, files.bed_file.path, payload) as add() calls
\* it: the argument expression is evaluated first
QdrantOutcomes(files) ==
    IF files.bed_file.isNone THEN {"AttributeError"}
    ELSE UploadQdrantOutcomes(StrArg(files.bed_file.v.path))

\* upload_qdrant called directly
UploadQdrant(bed_id, bed_file, payload) ==
    /\ ncalls < MaxCalls
    /\ ncalls' = ncalls + 1
    /\ \E e \in UploadQdrantOutcomes(bed_file) :
          /\ qdrant' = IF e = "" THEN Put(qdrant, bed_id,
                                          QdrantEntry(bed_file.path, payload))
                       ELSE qdrant
          /\ ret' = [op |-> "upload_qdrant", identifier |-> bed_id,
                     bed_file |-> bed_file, err |-> e, encoded |-> Encoded(e),
                     before |-> qdrant]
    /\ UNCHANGED <<handles, bed, filesTbl, s3, phc, call>>

AddQdrant(p) ==
    LET c == call[p]
    IN  /\ c.pc = "qdrant"
        /\ IF ~c.add_to_qdrant
           THEN /\ call' = [call EXCEPT ![p].pc = NextPc("qdrant", c.upload_s3)]
                /\ UNCHANGED qdrant
           ELSE \E e \in QdrantOutcomes(c.files) :
                  IF e # ""
                  THEN /\ call' = [call EXCEPT ![p] = Fail(c, e)]
                       /\ UNCHANGED qdrant
                  ELSE /\ qdrant' = Put(qdrant, c.identifier,
                                        QdrantEntry(c.files.bed_file.v.path,
                                                    c.metadata))
                       /\ call' = [call EXCEPT ![p].pc = NextPc("qdrant", c.upload_s3),
                                               ![p].log = Append(c.log, "qdrant")]
        /\ UNCHANGED <<handles, bed, filesTbl, s3, phc, ret, ncalls>>

\* boto3_client.upload_file(file_path, bucket, s3_path): a None client, a
\* missing local file, a service error, or success
UploadOutcomes(file_path) ==
    IF ~handles.boto3 THEN {"AttributeError"}
    ELSE IF file_path \notin DOMAIN LocalFS THEN {"FileNotFoundError"}
    ELSE {"", "S3UploadFailedError"}

\* the object an upload of file_path leaves in the bucket
S3Object(file_path) == [src |-> file_path, size |-> LocalFS[file_path]]

\* remote key of a primary file: folder/<c0>/<c1>/<basename>, the two shard
\* characters taken from the base name of the file
FileS3Path(folder, identifier, path) ==
    LET file_base_name == Basename(path)
    IN  PathJoin(<<folder, <<file_base_name[1]>>, <<file_base_name[2]>>,
                   Basename(path)>>)

\* mutant of PlotS3Path: plots sharded like generic assets,
\* stats/<id[0]>/<id[1]>/<basename>
PlotS3PathSharded(identifier, path) ==
    PathJoin(<<PLOTS_PATH_FOLDER, <<identifier[1]>>, <<identifier[2]>>,
               Basename(path)>>)

\* remote key of a plot or thumbnail: stats/<identifier>/<basename>
PlotS3Path(identifier, path) ==
    PathJoin(<<PathJoin(<<PLOTS_PATH_FOLDER, identifier>>), Basename(path)>>)

\* index of the first plot field at or after i that holds a descriptor,
\* Len(BedPlotsFields) + 1 when there is none
NextPlot(plots, i) ==
    LET held == {j \in i..Len(BedPlotsFields) : ~plots[BedPlotsFields[j]].isNone}
    IN  IF held = {} THEN Len(BedPlotsFields) + 1
        ELSE CHOOSE j \in held : \A k \in held : j <= k

\* the plots loop of upload_plots_s3 arriving at index i; past the last
\* field the function returns plots_output, which add() binds to plots
PlotLoop(c, i) ==
    LET j == NextPlot(c.plots, i)
    IN  IF j > Len(BedPlotsFields)
        THEN [c EXCEPT !.pc = "commit", !.plots = c.plots_output]
        ELSE [c EXCEPT !.pc = "s3_plot_path", !.pi = j]

\* what follows a branch of upload_files_s3: after bed_file the bigbed_file
\* branch; after bigbed_file the function returns and upload_plots_s3
\* starts with an empty BedPlots()
AfterFile(c, field) ==
    IF field = "bed_file" THEN [c EXCEPT !.pc = "s3_bigbed"]
    ELSE PlotLoop([c EXCEPT !.plots_output = BedPlots(NoPlots)], 1)

\* one branch of upload_files_s3 (bedfiles.py), for files.<field>
UploadFileStep(p, field, folder) ==
    LET c == call[p]
        f == c.files[field]
    IN  IF f.isNone
        THEN /\ call' = [call EXCEPT ![p] = AfterFile(c, field)]
             /\ UNCHANGED s3
        ELSE IF Len(Basename(f.v.path)) < 2
        THEN /\ call' = [call EXCEPT ![p] = Fail(c, "IndexError")]
             /\ UNCHANGED s3
        ELSE LET s3_path == FileS3Path(folder, c.identifier, f.v.path)
             IN  \E e \in UploadOutcomes(f.v.path) :
                   IF e # ""
                   THEN /\ call' = [call EXCEPT ![p] = Fail(c, e)]
                        /\ UNCHANGED s3
                   ELSE /\ s3' = Put(s3, s3_path, S3Object(f.v.path))
                        /\ call' = [call EXCEPT ![p] =
                               AfterFile([c EXCEPT !.files[field].v.path = s3_path,
                                                   !.log = Append(c.log, "s3")],
                                         field)]

AddUploadBed(p) ==
    /\ call[p].pc = "s3_bed"
    /\ UploadFileStep(p, "bed_file", BED_PATH_FOLDER)
    /\ UNCHANGED <<handles, bed, filesTbl, qdrant, phc, ret, ncalls>>

AddUploadBigbed(p) ==
    /\ call[p].pc = "s3_bigbed"
    /\ UploadFileStep(p, "bigbed_file", BIGBED_PATH_FOLDER)
    /\ UNCHANGED <<handles, bed, filesTbl, qdrant, phc, ret, ncalls>>

\* upload of one plot's path or thumbnail from under output_path:
\* os.path.join(None, ...) raises TypeError before anything is sent
PlotUploadOutcomes(output_path, rel) ==
    IF output_path.isNone THEN {"TypeError"}
    ELSE UploadOutcomes(Join2(output_path.v, rel))

\* upload_plots_s3, first half of one loop iteration: value.path
AddUploadPlotPath(p) ==
    LET c == call[p]
    IN  /\ c.pc = "s3_plot_path"
        /\ LET value == c.plots[BedPlotsFields[c.pi]].v
           IN  IF value.path = <<>>
               THEN /\ call' = [call EXCEPT ![p].pc = "s3_plot_thumb",
                                            ![p].file_s3_path = PyNone]
                    /\ UNCHANGED s3
               ELSE LET file_s3_path == PlotS3Path(c.identifier, value.path)
                    IN  \E e \in PlotUploadOutcomes(c.args.local_path, value.path) :
                          IF e # ""
                          THEN /\ call' = [call EXCEPT ![p] = Fail(c, e)]
                               /\ UNCHANGED s3
                          ELSE /\ s3' = Put(s3, file_s3_path,
                                     S3Object(Join2(c.args.local_path.v, value.path)))
                               /\ call' = [call EXCEPT
                                      ![p].pc = "s3_plot_thumb",
                                      ![p].file_s3_path = Some(file_s3_path),
                                      ![p].log = Append(c.log, "s3")]
        /\ UNCHANGED <<handles, bed, filesTbl, qdrant, phc, ret, ncalls>>

\* end of one loop iteration: FileModel(name, path=file_s3_path, ...) is
\* stored in plots_output; path=None does not validate
PlotDone(c, thumb) ==
    IF c.file_s3_path.isNone THEN Fail(c, "ValidationError")
    ELSE LET key == BedPlotsFields[c.pi]
             value == c.plots[key].v
         IN  PlotLoop([c EXCEPT !.plots_output[key] =
                           Some(FileModel(value.name, c.file_s3_path.v, thumb,
                                          value.description, PyNone))],
                      c.pi + 1)

\* upload_plots_s3, second half of one loop iteration: value.path_thumbnail
AddUploadPlotThumb(p) ==
    LET c == call[p]
    IN  /\ c.pc = "s3_plot_thumb"
        /\ LET value == c.plots[BedPlotsFields[c.pi]].v
           IN  IF ~TruthyOptStr(value.path_thumbnail)
               THEN /\ call' = [call EXCEPT ![p] = PlotDone(c, PyNone)]
                    /\ UNCHANGED s3
               ELSE LET thumb == PlotS3Path(c.identifier, value.path_thumbnail.v)
                    IN  \E e \in PlotUploadOutcomes(c.args.local_path,
                                                    value.path_thumbnail.v) :
                          IF e # ""
                          THEN /\ call' = [call EXCEPT ![p] = Fail(c, e)]
                               /\ UNCHANGED s3
                          ELSE /\ s3' = Put(s3, thumb,
                                     S3Object(Join2(c.args.local_path.v,
                                                    value.path_thumbnail.v)))
                               /\ call' = [call EXCEPT ![p] =
                                      PlotDone([c EXCEPT !.log = Append(c.log, "s3")],
                                               Some(thumb))]
        /\ UNCHANGED <<handles, bed, filesTbl, qdrant, phc, ret, ncalls>>

\* Bed(id=identifier, **stats.model_dump(), **classification.model_dump())
BedRow(identifier, stats, classification) ==
    [id |-> identifier, number_of_regions |-> stats.number_of_regions,
     genome_alias |-> classification.genome_alias]

\* Files(name=k, path=v.path, ..., type="file"/"plot"): one row per
\* descriptor that is not None
FilesRow(identifier, k, v, type) ==
    [name |-> k, path |-> v.path,
     path_thumbnail |-> IF type = "plot" THEN v.path_thumbnail ELSE PyNone,
     description |-> v.description, bedfile_id |-> identifier, type |-> type,
     size |-> IF type = "file" THEN v.size ELSE PyNone]

\* mutant of NewFilesRows: the rows are written whatever upload_s3 is
NewFilesRowsAlways(c) ==
    {FilesRow(c.identifier, k, c.files[k].v, "file") :
        k \in {f \in SeqRange(BedFilesFields) : ~c.files[f].isNone}}
    \cup
    {FilesRow(c.identifier, k, c.plots[k].v, "plot") :
        k \in {f \in SeqRange(BedPlotsFields) : ~c.plots[f].isNone}}

\* mutant of NewFilesRows: the loop over plots is forgotten
NewFilesRowsNoPlots(c) ==
    IF ~c.upload_s3 THEN {}
    ELSE {FilesRow(c.identifier, k, c.files[k].v, "file") :
             k \in {f \in SeqRange(BedFilesFields) : ~c.files[f].isNone}}

\* the rows session.add()-ed before the commit
NewFilesRows(c) ==
    IF ~c.upload_s3 THEN {}
    ELSE {FilesRow(c.identifier, k, c.files[k].v, "file") :
             k \in {f \in SeqRange(BedFilesFields) : ~c.files[f].isNone}}
         \cup
         {FilesRow(c.identifier, k, c.plots[k].v, "plot") :
             k \in {f \in SeqRange(BedPlotsFields) : ~c.plots[f].isNone}}

\* the Bed table is keyed by the identifier: a row with this key exists
BedKeyTaken(identifier) ==
    identifier \in DOMAIN bed

\* session.commit(): the INSERT of a second row with the same primary key
\* is refused; the database may also be unreachable
CommitOutcomes(identifier) ==
    IF BedKeyTaken(identifier) THEN {"IntegrityError"}
    ELSE {"", "OperationalError"}

\* mutant of AddCommit: a failed commit is compensated by removing the
\* vector entry written earlier
AddCommitCompensating(p) ==
    LET c == call[p]
    IN  /\ c.pc = "commit"
        /\ \E e \in CommitOutcomes(c.identifier) :
             IF e # ""
             THEN /\ call' = [call EXCEPT ![p] = Fail(c, e)]
                  /\ qdrant' = [k \in DOMAIN qdrant \ {c.identifier} |-> qdrant[k]]
                  /\ UNCHANGED <<bed, filesTbl>>
             ELSE /\ bed' = Put(bed, c.identifier,
                                BedRow(c.identifier, c.stats, c.classification))
                  /\ filesTbl' = filesTbl \cup NewFilesRows(c)
                  /\ call' = [call EXCEPT ![p].pc = "done",
                                          ![p].log = Append(c.log, "commit")]
                  /\ UNCHANGED qdrant
        /\ UNCHANGED <<handles, s3, phc, ret, ncalls>>

\* mutant of AddCommit: the Files rows are not part of the transaction, a
\* failed commit leaves them behind
AddCommitTorn(p) ==
    LET c == call[p]
    IN  /\ c.pc = "commit"
        /\ \E e \in CommitOutcomes(c.identifier) :
             IF e # ""
             THEN /\ call' = [call EXCEPT ![p] = Fail(c, e)]
                  /\ filesTbl' = filesTbl \cup NewFilesRows(c)
                  /\ UNCHANGED bed
             ELSE /\ bed' = Put(bed, c.identifier,
                                BedRow(c.identifier, c.stats, c.classification))
                  /\ filesTbl' = filesTbl \cup NewFilesRows(c)
                  /\ call' = [call EXCEPT ![p].pc = "done",
                                          ![p].log = Append(c.log, "commit")]
        /\ UNCHANGED <<handles, s3, qdrant, phc, ret, ncalls>>

\* the relational transaction: all rows or none
AddCommit(p) ==
    LET c == call[p]
    IN  /\ c.pc = "commit"
        /\ \E e \in CommitOutcomes(c.identifier) :
             IF e # ""
             THEN /\ call' = [call EXCEPT ![p] = Fail(c, e)]
                  /\ UNCHANGED <<bed, filesTbl>>
             ELSE /\ bed' = Put(bed, c.identifier,
                                BedRow(c.identifier, c.stats, c.classification))
                  /\ filesTbl' = filesTbl \cup NewFilesRows(c)
                  /\ call' = [call EXCEPT ![p].pc = "done",
                                          ![p].log = Append(c.log, "commit")]
        /\ UNCHANGED <<handles, s3, qdrant, phc, ret, ncalls>>

\* add() has returned None or raised c.err: the frame is gone
AddReturn(p) ==
    /\ call[p].pc \in {"done", "failed"}
    /\ call' = [call EXCEPT ![p] = IdleCall]
    /\ UNCHANGED <<handles, stores, ret, ncalls>>

\* _upload_s3 called directly
AgentUploadS3(file_path, s3_path) ==
    /\ ncalls < MaxCalls
    /\ ncalls' = ncalls + 1
    /\ \E e \in UploadOutcomes(file_path) :
          /\ s3' = IF e = "" THEN Put(s3, s3_path, S3Object(file_path)) ELSE s3
          /\ ret' = [op |-> "_upload_s3", file_path |-> file_path,
                     s3_path |-> s3_path, err |-> e,
                     attempts |-> IF e \in {"", "S3UploadFailedError"}
                                  THEN <<s3_path>> ELSE <<>>,
                     before |-> s3]
    /\ UNCHANGED <<handles, bed, filesTbl, qdrant, phc, call>>

\* ------------------------------------------------------------------------
\* BedBaseConfig: upload_s3, upload_files_s3, delete_s3, delete_files_s3
\* ------------------------------------------------------------------------
\* folders of the three kinds of assets
S3_FILE_PATH_FOLDER == <<"f","i","l","e","s">>

S3_PLOTS_PATH_FOLDER == <<"s","t","a","t","s">>

S3_BEDSET_PATH_FOLDER == <<"b","e","d","s","e","t","s">>

\* helpers.get_absolute_path: a path under base_path unless it is absolute
GetAbsolutePath(path, base_path) == Join2(base_path, path)

\* upload_s3: the handle is tested first, then the local file, then
\* upload_file is called; svc_fail are the local files whose transfer the
\* object store refuses
UploadS3Error(file_path, svc_fail) ==
    IF ~handles.boto3 THEN "BedbaseS3ConnectionError"
    ELSE IF file_path \notin DOMAIN LocalFS THEN "BedBaseConfError"
    ELSE IF file_path \in svc_fail THEN "S3UploadFailedError"
    ELSE ""

\* upload_s3 reached self._boto3_client.upload_file
UploadFileCalled(file_path) == handles.boto3 /\ file_path \in DOMAIN LocalFS

\* the state of a batch operation: the descriptors as mutated so far, the
\* bucket, the keys handed to the object store so far, the pending exception
BatchState(files, bucket) ==
    [files |-> files, s3 |-> bucket, attempts |-> <<>>, err |-> ""]

\* one call of upload_s3 inside a batch
BatchUpload(st, file_path, s3_path, svc_fail) ==
    LET e == UploadS3Error(file_path, svc_fail)
    IN  [st EXCEPT !.err = e,
                   !.attempts = IF UploadFileCalled(file_path)
                                THEN Append(@, s3_path) ELSE @,
                   !.s3 = IF e = "" THEN Put(@, s3_path, S3Object(file_path)) ELSE @]

\* upload_s3(file_path, s3_path)
UploadS3(file_path, s3_path) ==
    /\ ncalls < MaxCalls
    /\ ncalls' = ncalls + 1
    /\ \E svc_fail \in {{}, {file_path}} :
          LET st == BatchUpload(BatchState(PyNone, s3), file_path, s3_path, svc_fail)
          IN  /\ s3' = st.s3
              /\ ret' = [op |-> "upload_s3", file_path |-> file_path,
                         s3_path |-> s3_path, err |-> st.err,
                         attempts |-> st.attempts, before |-> s3]
    /\ UNCHANGED <<handles, bed, filesTbl, qdrant, phc, call>>

\* the folder chosen by the type argument, PyNone for an unknown type
S3OutputBaseFolder(type) ==
    CASE type = "files" -> Some(S3_FILE_PATH_FOLDER)
      [] type = "plots" -> Some(S3_PLOTS_PATH_FOLDER)
      [] type = "bedsets" -> Some(S3_BEDSET_PATH_FOLDER)
      [] OTHER -> PyNone

\* s3_path of upload_files_s3: folder/<id[0]>/<id[1]>/<basename>
ConfigS3Path(folder, identifier, path) ==
    PathJoin(<<folder, <<identifier[1]>>, <<identifier[2]>>, Basename(path)>>)

\* mutant of UploadFilesBody: path and size are set before the upload
UploadFilesBodyEager(st, k, identifier, base_path, folder, svc_fail) ==
    LET value == st.files[k].v
        file_path == GetAbsolutePath(value.path, base_path)
        s3_path == ConfigS3Path(folder, identifier, value.path)
        st0 == [st EXCEPT !.files[k].v.size =
                              IF file_path \in DOMAIN LocalFS
                              THEN Some(LocalFS[file_path]) ELSE PyNone,
                          !.files[k].v.path = s3_path]
        st1 == BatchUpload(st0, file_path, s3_path, svc_fail)
    IN  IF st1.err # "" THEN st1
        ELSE IF ~TruthyOptStr(value.path_thumbnail) THEN st1
        ELSE LET thumb == value.path_thumbnail.v
                 file_path_thumbnail == GetAbsolutePath(thumb, base_path)
                 s3_path_thumbnail == ConfigS3Path(folder, identifier, thumb)
                 st3 == BatchUpload(st1, file_path_thumbnail, s3_path_thumbnail,
                                    svc_fail)
             IN  IF st3.err # "" THEN st3
                 ELSE [st3 EXCEPT !.files[k].v.path_thumbnail =
                                     Some(s3_path_thumbnail)]

\* the body of the loop of upload_files_s3 for field k, which holds a
\* descriptor: the primary file, then size and path, then the thumbnail
UploadFilesBody(st, k, identifier, base_path, folder, svc_fail) ==
    LET value == st.files[k].v
        file_path == GetAbsolutePath(value.path, base_path)
        s3_path == ConfigS3Path(folder, identifier, value.path)
        st1 == BatchUpload(st, file_path, s3_path, svc_fail)
        st2 == [st1 EXCEPT !.files[k].v.size = Some(LocalFS[file_path]),
                           !.files[k].v.path = s3_path]
    IN  IF st1.err # "" THEN st1
        ELSE IF ~TruthyOptStr(value.path_thumbnail) THEN st2
        ELSE LET thumb == value.path_thumbnail.v
                 file_path_thumbnail == GetAbsolutePath(thumb, base_path)
                 s3_path_thumbnail == ConfigS3Path(folder, identifier, thumb)
                 st3 == BatchUpload(st2, file_path_thumbnail, s3_path_thumbnail,
                                    svc_fail)
             IN  IF st3.err # "" THEN st3
                 ELSE [st3 EXCEPT !.files[k].v.path_thumbnail =
                                     Some(s3_path_thumbnail)]

RECURSIVE UploadFilesLoopKeepGoing(_, _, _, _, _, _, _)
\* mutant of UploadFilesLoop: a failed upload is remembered and the loop
\* goes on with the next descriptor
UploadFilesLoopKeepGoing(st, fields, i, identifier, base_path, folder, svc_fail) ==
    IF i > Len(fields) THEN st
    ELSE IF st.files[fields[i]].isNone
    THEN UploadFilesLoopKeepGoing(st, fields, i + 1, identifier, base_path,
                                  folder, svc_fail)
    ELSE LET r == UploadFilesBody([st EXCEPT !.err = ""], fields[i], identifier,
                                  base_path, folder, svc_fail)
         IN  UploadFilesLoopKeepGoing(
                [r EXCEPT !.err = IF st.err # "" THEN st.err ELSE r.err],
                fields, i + 1, identifier, base_path, folder, svc_fail)

RECURSIVE UploadFilesLoop(_, _, _, _, _, _, _)
\* for key, value in files, from the i-th field on: an exception ends it
UploadFilesLoop(st, fields, i, identifier, base_path, folder, svc_fail) ==
    IF i > Len(fields) \/ st.err # "" THEN st
    ELSE IF st.files[fields[i]].isNone
    THEN UploadFilesLoop(st, fields, i + 1, identifier, base_path, folder, svc_fail)
    ELSE UploadFilesLoop(
            UploadFilesBody(st, fields[i], identifier, base_path, folder, svc_fail),
            fields, i + 1, identifier, base_path, folder, svc_fail)

\* upload_files_s3(identifier, files, base_path, type) on the bucket
UploadFilesResult(identifier, batch, svc_fail, bucket) ==
    IF S3OutputBaseFolder(batch.type).isNone
    THEN [BatchState(batch.files, bucket) EXCEPT !.err = "BedBaseConfError"]
    ELSE UploadFilesLoop(BatchState(batch.files, bucket), batch.fields, 1,
                         identifier, batch.base_path,
                         S3OutputBaseFolder(batch.type).v, svc_fail)

\* batches handed to upload_files_s3:
\*   two plots, the first under OutDir and with a thumbnail, the second
\*   given by an absolute path;
\*   two primary files, the second of which is not on disk;
\*   the plots again with a type the function does not know
PlotsBatch ==
    [fields |-> BedPlotsFields,
     files |-> [chrombins |-> Some(FileModel(<<"c","b">>, PlotPng, Some(ThumbPng),
                                             PyNone, PyNone)),
                gccontent |-> Some(FileModel(<<"g","c">>, PathShort, PyNone,
                                             PyNone, PyNone))],
     base_path |-> OutDir, type |-> "plots"]

FilesBatch ==
    [fields |-> BedFilesFields,
     files |-> [bed_file |-> Some(FileModel(<<"b","e","d">>, PathXBed, PyNone,
                                            PyNone, PyNone)),
                bigbed_file |-> Some(FileModel(<<"b","b">>, PathGone, PyNone,
                                               PyNone, PyNone))],
     base_path |-> OutDir, type |-> "files"]

Batches == {PlotsBatch, FilesBatch, [PlotsBatch EXCEPT !.type = "other"]}

\* the local files of a batch the object store may refuse: none or one
BatchFailures(batch) ==
    {{}} \cup
    {{GetAbsolutePath(batch.files[k].v.path, batch.base_path)} :
        k \in SeqRange(batch.fields)}
    \cup
    {{GetAbsolutePath(batch.files[k].v.path_thumbnail.v, batch.base_path)} :
        k \in {f \in SeqRange(batch.fields) :
                 TruthyOptStr(batch.files[f].v.path_thumbnail)}}

\* upload_files_s3(identifier, files, base_path, type): files is mutated in
\* place and returned only when no upload raised
UploadFilesS3(identifier, batch) ==
    /\ ncalls < MaxCalls
    /\ ncalls' = ncalls + 1
    /\ \E svc_fail \in BatchFailures(batch) :
          LET st == UploadFilesResult(identifier, batch, svc_fail, s3)
          IN  /\ s3' = st.s3
              /\ ret' = [op |-> "upload_files_s3", identifier |-> identifier,
                         batch |-> batch, err |-> st.err, files |-> st.files,
                         returned |-> IF st.err = "" THEN Some(st.files) ELSE PyNone,
                         attempts |-> st.attempts, svc_fail |-> svc_fail,
                         before |-> s3]
    /\ UNCHANGED <<handles, bed, filesTbl, qdrant, phc, call>>

\* delete_s3(s3_path) inside a batch: the handle is tested, then
\* delete_object is called; svc_fail are the keys the object store refuses
\* to delete. attempts counts the calls of delete_s3
BatchDelete(st, s3_path, svc_fail) ==
    LET e == IF ~handles.boto3 THEN "BedbaseS3ConnectionError"
             ELSE IF s3_path \in svc_fail THEN "ClientError"
             ELSE ""
    IN  [st EXCEPT !.err = e,
                   !.attempts = Append(@, s3_path),
                   !.s3 = IF e = "" THEN [k \in DOMAIN @ \ {s3_path} |-> @[k]]
                          ELSE @]

RECURSIVE DeleteFilesLoop(_, _, _)
\* for file in files: delete_s3(file.path), then the thumbnail if present;
\* nothing is caught
DeleteFilesLoop(st, i, svc_fail) ==
    IF i > Len(st.files) \/ st.err # "" THEN st
    ELSE LET file == st.files[i]
             st1 == BatchDelete(st, file.path, svc_fail)
         IN  IF st1.err # "" THEN st1
             ELSE IF ~TruthyOptStr(file.path_thumbnail)
             THEN DeleteFilesLoop(st1, i + 1, svc_fail)
             ELSE DeleteFilesLoop(BatchDelete(st1, file.path_thumbnail.v, svc_fail),
                                  i + 1, svc_fail)

\* the list handed to delete_files_s3: an uploaded plot with its thumbnail
\* and an uploaded primary file
DeleteList(identifier) ==
    <<FileModel(<<"c","b">>,
                ConfigS3Path(S3_PLOTS_PATH_FOLDER, identifier, PlotPng),
                Some(ConfigS3Path(S3_PLOTS_PATH_FOLDER, identifier, ThumbPng)),
                PyNone, Some(LocalFS[Join2(OutDir, PlotPng)])),
      FileModel(<<"b","e","d">>,
                ConfigS3Path(S3_FILE_PATH_FOLDER, identifier, PathXBed),
                PyNone, PyNone, Some(LocalFS[PathXBed]))>>

\* the keys of a list of descriptors: every path and every thumbnail path
KeysOf(files) ==
    {files[i].path : i \in 1..Len(files)} \cup
    {files[i].path_thumbnail.v :
        i \in {j \in 1..Len(files) : TruthyOptStr(files[j].path_thumbnail)}}

\* delete_files_s3(files)
DeleteFilesS3(files) ==
    /\ ncalls < MaxCalls
    /\ ncalls' = ncalls + 1
    /\ \E svc_fail \in {{}} \cup {{k} : k \in KeysOf(files)} :
          LET st == DeleteFilesLoop(BatchState(files, s3), 1, svc_fail)
          IN  /\ s3' = st.s3
              /\ ret' = [op |-> "delete_files_s3", files |-> files,
                         err |-> st.err, attempts |-> st.attempts, before |-> s3]
    /\ UNCHANGED <<handles, bed, filesTbl, qdrant, phc, call>>

\* ------------------------------------------------------------------------
\* BedAgentBedFile.get
\* ------------------------------------------------------------------------
\* bed_object.files
RowsOf(identifier) == {r \in filesTbl : r.bedfile_id = identifier}

\* the plots partition: rows whose name is a BedPlots field
GetPlotsPartition(identifier) ==
    [k \in SeqRange(BedPlotsFields) |->
        IF \E r \in RowsOf(identifier) : r.name = k
        THEN LET r == CHOOSE r \in RowsOf(identifier) : r.name = k
             IN  Some(FileModel(r.name, r.path, r.path_thumbnail, r.description,
                                r.size))
        ELSE PyNone]

\* the files partition: rows whose name is a BedFiles field and no BedPlots
\* field
GetFilesPartition(identifier) ==
    [k \in SeqRange(BedFilesFields) |->
        IF \E r \in RowsOf(identifier) :
              r.name = k /\ r.name \notin SeqRange(BedPlotsFields)
        THEN LET r == CHOOSE r \in RowsOf(identifier) : r.name = k
             IN  Some(FileModel(r.name, r.path, PyNone, r.description, r.size))
        ELSE PyNone]

\* the exception raised inside the try block around phc.sample.get(...):
\* a None client, a service that does not answer, a sample that does not
\* exist; "" when the document is returned
PhcGetError(identifier, phc_ok) ==
    IF ~handles.phc THEN "AttributeError"
    ELSE IF ~phc_ok THEN "ResponseError"
    ELSE IF identifier \notin DOMAIN phc THEN "ResponseError"
    ELSE ""

\* phc.sample.get(...) with every exception mapped to {}
GetRawMetadata(identifier, phc_ok) ==
    IF PhcGetError(identifier, phc_ok) = ""
    THEN BedPEPHub(phc[identifier])
    ELSE BedPEPHub({})

\* mutant of GetResult: the exception of the metadata fetch is not caught
GetResultPropagating(identifier, phc_ok) ==
    IF identifier \notin DOMAIN bed
    THEN [op |-> "get", identifier |-> identifier, err |-> "AttributeError",
          view |-> PyNone, warning |-> ""]
    ELSE IF PhcGetError(identifier, phc_ok) # ""
    THEN [op |-> "get", identifier |-> identifier,
          err |-> PhcGetError(identifier, phc_ok), view |-> PyNone,
          warning |-> ""]
    ELSE [op |-> "get", identifier |-> identifier, err |-> "",
          view |-> Some(
             [id |-> bed[identifier].id,
              stats |-> [number_of_regions |-> bed[identifier].number_of_regions],
              classification |-> [genome_alias |-> bed[identifier].genome_alias],
              plots |-> GetPlotsPartition(identifier),
              files |-> GetFilesPartition(identifier),
              raw_metadata |-> GetRawMetadata(identifier, phc_ok)]),
          warning |-> ""]

\* mutant of GetResult: a row whose name no model field knows fails the read
GetResultStrict(identifier, phc_ok) ==
    IF identifier \notin DOMAIN bed
    THEN [op |-> "get", identifier |-> identifier, err |-> "AttributeError",
          view |-> PyNone, warning |-> ""]
    ELSE IF \E r \in RowsOf(identifier) :
               r.name \notin SeqRange(BedPlotsFields) \cup SeqRange(BedFilesFields)
    THEN [op |-> "get", identifier |-> identifier, err |-> "ValueError",
          view |-> PyNone, warning |-> ""]
    ELSE [op |-> "get", identifier |-> identifier, err |-> "",
          view |-> Some(
             [id |-> bed[identifier].id,
              stats |-> [number_of_regions |-> bed[identifier].number_of_regions],
              classification |-> [genome_alias |-> bed[identifier].genome_alias],
              plots |-> GetPlotsPartition(identifier),
              files |-> GetFilesPartition(identifier),
              raw_metadata |-> GetRawMetadata(identifier, phc_ok)]),
          warning |-> PhcGetError(identifier, phc_ok)]

\* what get(identifier) returns or raises; phc_ok: the metadata service
\* answers. With no row, session.scalar gives None and bed_object.files
\* raises AttributeError. warning: the exception logged by the except block
GetResult(identifier, phc_ok) ==
    IF identifier \notin DOMAIN bed
    THEN [op |-> "get", identifier |-> identifier, err |-> "AttributeError",
          view |-> PyNone, warning |-> ""]
    ELSE [op |-> "get", identifier |-> identifier, err |-> "",
          view |-> Some(
             [id |-> bed[identifier].id,
              stats |-> [number_of_regions |-> bed[identifier].number_of_regions],
              classification |-> [genome_alias |-> bed[identifier].genome_alias],
              plots |-> GetPlotsPartition(identifier),
              files |-> GetFilesPartition(identifier),
              raw_metadata |-> GetRawMetadata(identifier, phc_ok)]),
          warning |-> PhcGetError(identifier, phc_ok)]

Get(identifier) ==
    /\ \E phc_ok \in BOOLEAN : ret' = GetResult(identifier, phc_ok)
    /\ UNCHANGED <<handles, stores, call, ncalls>>

\* ------------------------------------------------------------------------
\* BedAgentBedFile.get_stats, get_plots, get_files, get_classification
\* ------------------------------------------------------------------------
\* the result of a read that loads the Bed row first: with no row
\* session.scalar gives None and the first attribute access raises
\* AttributeError
ReadResult(op, identifier, value) ==
    IF identifier \notin DOMAIN bed
    THEN [op |-> op, identifier |-> identifier, err |-> "AttributeError",
          value |-> PyNone]
    ELSE [op |-> op, identifier |-> identifier, err |-> "", value |-> Some(value)]

\* BedStats(**bed_object.__dict__)
GetStatsValue(identifier) ==
    [number_of_regions |-> bed[identifier].number_of_regions]

\* BedClassification(**bed_object.__dict__)
GetClassificationValue(identifier) ==
    [genome_alias |-> bed[identifier].genome_alias]

\* get_plots: FileModel(name, path, path_thumbnail, description) for the
\* rows whose name is a BedPlots field; size is not passed
GetPlotsValue(identifier) ==
    [k \in SeqRange(BedPlotsFields) |->
        IF \E r \in RowsOf(identifier) : r.name = k
        THEN LET r == CHOOSE r \in RowsOf(identifier) : r.name = k
             IN  Some(FileModel(r.name, r.path, r.path_thumbnail, r.description,
                                PyNone))
        ELSE PyNone]

\* get_files: FileModel(name, path, description) for the rows whose name is
\* a BedFiles field; neither size nor thumbnail is passed
GetFilesValue(identifier) ==
    [k \in SeqRange(BedFilesFields) |->
        IF \E r \in RowsOf(identifier) : r.name = k
        THEN LET r == CHOOSE r \in RowsOf(identifier) : r.name = k
             IN  Some(FileModel(r.name, r.path, PyNone, r.description, PyNone))
        ELSE PyNone]

GetStats(identifier) ==
    /\ ret' = ReadResult("get_stats", identifier, GetStatsValue(identifier))
    /\ UNCHANGED <<handles, stores, call, ncalls>>

GetPlots(identifier) ==
    /\ ret' = ReadResult("get_plots", identifier, GetPlotsValue(identifier))
    /\ UNCHANGED <<handles, stores, call, ncalls>>

GetFiles(identifier) ==
    /\ ret' = ReadResult("get_files", identifier, GetFilesValue(identifier))
    /\ UNCHANGED <<handles, stores, call, ncalls>>

GetClassification(identifier) ==
    /\ ret' = ReadResult("get_classification", identifier,
                         GetClassificationValue(identifier))
    /\ UNCHANGED <<handles, stores, call, ncalls>>

\* ------------------------------------------------------------------------
\* BedAgentBedFile.delete: the body is "..."
\* ------------------------------------------------------------------------
Delete(identifier) ==
    /\ ret' = [op |-> "delete", identifier |-> identifier, err |-> "",
               view |-> PyNone]
    /\ UNCHANGED <<handles, stores, call, ncalls>>

\* ------------------------------------------------------------------------
\* Specification: one caller, one operation at a time
\* ------------------------------------------------------------------------
\* overwrite is read by upload_pephub alone: with upload_pephub off its
\* value reaches no statement, and one value stands for both
OverwriteChoices(upload_pephub) == IF upload_pephub THEN BOOLEAN ELSE {FALSE}

AllIdle == \A p \in Procs : call[p].pc = "idle"

AddStep(p) ==
    \/ \E identifier \in Ids, payload \in Payloads,
          add_to_qdrant \in BOOLEAN, upload_pephub \in BOOLEAN,
          upload_s3 \in BOOLEAN :
          \E overwrite \in OverwriteChoices(upload_pephub) :
          AddBegin(p, identifier, payload, add_to_qdrant, upload_pephub,
                   upload_s3, overwrite)
    \/ AddPephub(p)
    \/ AddQdrant(p)
    \/ AddUploadBed(p)
    \/ AddUploadBigbed(p)
    \/ AddUploadPlotPath(p)
    \/ AddUploadPlotThumb(p)
    \/ AddCommit(p)
    \/ AddReturn(p)

Next ==
    \/ AddStep(MainProc)
    \/ AllIdle /\ \E identifier \in Ids : Get(identifier)
    \/ AllIdle /\ \E identifier \in Ids : Delete(identifier)

Spec == Init /\ [][Next]_vars

\* ------------------------------------------------------------------------
\* BedAgentBedFile.text_to_bed_search
\* ------------------------------------------------------------------------
\* the identifiers in the order the vector index ranks them for the query
\* (descending score)
ScoreOrder == <<IdB, IdA>>

IsIndexed(identifier) == identifier \in DOMAIN qdrant

\* the id of a hit as the index reports it: with a hyphen added
Hyphenated(identifier) == <<identifier[1], identifier[2], "-">> \o
                          SubSeq(identifier, 3, Len(identifier))

\* nl_vec_search(query, limit, offset): the hits ranked offset+1 ..
\* offset+limit among the indexed entries
NlVecSearch(limit, offset) ==
    LET ranked == SelectSeq(ScoreOrder, IsIndexed)
        last == IF offset + limit < Len(ranked) THEN offset + limit ELSE Len(ranked)
    IN  [i \in 1..(IF last > offset THEN last - offset ELSE 0) |->
            [id |-> Hyphenated(ranked[offset + i]), metadata |-> PyNone]]

\* text_to_bed_search: t2bsi or its search backend may be None; the body of
\* the loop names bbc and RecordNotFoundError, which the module does not
\* define, so its first iteration raises NameError
SearchResult(limit, offset) ==
    IF ~handles.t2bsi \/ ~handles.qdrant
    THEN [op |-> "search", limit |-> limit, offset |-> offset,
          err |-> "AttributeError", results |-> PyNone]
    ELSE IF NlVecSearch(limit, offset) # <<>>
    THEN [op |-> "search", limit |-> limit, offset |-> offset,
          err |-> "NameError", results |-> PyNone]
    ELSE [op |-> "search", limit |-> limit, offset |-> offset,
          err |-> "", results |-> Some(NlVecSearch(limit, offset))]

TextToBedSearch(limit, offset) ==
    /\ ret' = SearchResult(limit, offset)
    /\ UNCHANGED <<handles, stores, call, ncalls>>

\* ------------------------------------------------------------------------
\* Specification: a context is constructed, with whichever clients fail,
\* and one caller uses the agent and the context's asset operations on it
\* ------------------------------------------------------------------------
InitNew ==
    /\ handles = NoContext
    /\ bed = EmptyTable
    /\ filesTbl = {}
    /\ s3 = EmptyTable
    /\ qdrant = EmptyTable
    /\ phc = EmptyTable
    /\ call = [p \in Procs |-> IdleCall]
    /\ ret = NoRet
    /\ ncalls = 0

\* the payloads given to add() on such a context
ContextPayloads ==
    { GoodPayload,
      [GoodPayload EXCEPT !.metadata = Some(EmptyDoc),
                          !.plots = Some(NoPlots),
                          !.files = Some(NoFiles)] }

\* the arguments given to upload_qdrant
BedFileArgs == {StrArg(PathXBed), StrArg(PathGone), RegionSetArg(PathXBed), OtherArg}

\* the arguments given to upload_s3 and _upload_s3
UploadArgs == {<<PathXBed, <<"k">>>>, <<PathGone, <<"k">>>>}

AddEnter(p, ids, payloads) ==
    \E identifier \in ids, payload \in payloads,
       add_to_qdrant \in BOOLEAN, upload_pephub \in BOOLEAN,
       upload_s3 \in BOOLEAN :
       \E overwrite \in OverwriteChoices(upload_pephub) :
          AddBegin(p, identifier, payload, add_to_qdrant, upload_pephub,
                   upload_s3, overwrite)

AddRun(p) ==
    \/ AddPephub(p)
    \/ AddQdrant(p)
    \/ AddUploadBed(p)
    \/ AddUploadBigbed(p)
    \/ AddUploadPlotPath(p)
    \/ AddUploadPlotThumb(p)
    \/ AddCommit(p)
    \/ AddReturn(p)

NextContext ==
    \/ Construct
    \/ Ready /\ AddEnter(MainProc, {IdA}, ContextPayloads)
    \/ AddRun(MainProc)
    \/ Ready /\ AllIdle /\ \E identifier \in Ids : Get(identifier)
    \/ Ready /\ AllIdle /\ \E bed_file \in BedFileArgs :
          UploadQdrant(IdA, bed_file, Doc1)
    \/ Ready /\ AllIdle /\ \E a \in UploadArgs : AgentUploadS3(a[1], a[2])
    \/ Ready /\ AllIdle /\ \E a \in UploadArgs : UploadS3(a[1], a[2])
    \/ Ready /\ AllIdle /\ \E batch \in Batches : UploadFilesS3(IdA, batch)
    \/ Ready /\ AllIdle /\ DeleteFilesS3(DeleteList(IdA))
    \/ Ready /\ AllIdle /\ \E limit \in 0..MaxLimit, offset \in 0..1 :
          TextToBedSearch(limit, offset)

SpecContext == InitNew /\ [][NextContext]_vars

\* ------------------------------------------------------------------------
\* Specification: two callers run add() at the same time
\* ------------------------------------------------------------------------
\* Each statement of add() that reaches a store is one step; the steps of
\* the two callers interleave freely, as nothing in add() takes a lock.

\* one bed file and one plot
SmallPayload ==
    [GoodPayload EXCEPT
        !.plots = Some([NoPlots EXCEPT !.gccontent = Some(PlotDesc)]),
        !.files = Some([NoFiles EXCEPT !.bed_file = Some(BedDesc)])]

\* another document and another bed file with the same base name
OtherPayload ==
    [SmallPayload EXCEPT
        !.metadata = Some(Doc2),
        !.files = Some([NoFiles EXCEPT !.bed_file =
                           Some(RawDesc(<<"b","e","d">>, Some(PathXBedOther),
                                        PyNone))])]

\* the first caller adds IdA with the first payload; the second adds
\* either identifier with either payload
ConcurrentIds(p) == IF p = MainProc THEN {IdA} ELSE Ids

NextConcurrent ==
    \E p \in Procs :
        \/ AddEnter(p, ConcurrentIds(p),
                    IF p = MainProc THEN {SmallPayload}
                    ELSE {SmallPayload, OtherPayload})
        \/ AddRun(p)

SpecConcurrent == Init /\ [][NextConcurrent]_vars

\* ------------------------------------------------------------------------
\* Specification: a caller whose add() raised calls it again
\* ------------------------------------------------------------------------
\* add() raised c.err; the caller catches it and calls add() again with the
\* same identifier, inputs and flags. ret keeps what the first call raised,
\* the writes it had made, and whether the identifier had a row
Retry(p) ==
    LET c == call[p]
    IN  /\ c.pc = "failed"
        /\ ncalls < MaxCalls
        /\ ncalls' = ncalls + 1
        /\ ret' = [op |-> "add", identifier |-> c.identifier, err |-> c.err,
                   at |-> c.at, log |-> c.log,
                   absent |-> ~BedKeyTaken(c.identifier)]
        /\ call' = [call EXCEPT ![p] =
               Validated(Frame(c.identifier, c.args, c.add_to_qdrant,
                               c.upload_pephub, c.upload_s3, c.overwrite))]
        /\ UNCHANGED <<handles, stores>>

NextRetry ==
    \/ AddEnter(MainProc, {IdA}, {SmallPayload, GoodPayload})
    \/ AddRun(MainProc)
    \/ Retry(MainProc)

SpecRetry == Init /\ [][NextRetry]_vars

\* ------------------------------------------------------------------------
\* Specification: the read operations on the tables as they are found
\* ------------------------------------------------------------------------
\* The Bed and Files tables outlive the program: get() has a branch for
\* rows whose name no model field knows. The tables start with a record
\* for IdB and any of the rows below; IdA is added by add() with a bed file
\* whose descriptor carries a size.

\* rows found for IdB: a primary file, a plot with thumbnail, and two rows
\* named after fields the models do not have
FoundRows ==
    { FilesRow(IdB, "bed_file",
               FileModel(<<"b","e","d">>,
                         FileS3Path(BED_PATH_FOLDER, IdB, PathXBed),
                         PyNone, PyNone, PyNone), "file"),
      FilesRow(IdB, "chrombins",
               FileModel(<<"c","b">>, PlotS3Path(IdB, PlotPng), Some(PlotS3Path(IdB, ThumbPng)),
                         PyNone, PyNone), "plot"),
      FilesRow(IdB, "tss_distance",
               FileModel(<<"t","s","s">>, PlotS3Path(IdB, PathShort), PyNone,
                         PyNone, PyNone), "plot"),
      FilesRow(IdB, "bedgraph_file",
               FileModel(<<"b","g">>, PlotS3Path(IdB, PathBigBed), PyNone,
                         PyNone, PyNone), "file") }

\* the objects the found rows name
FoundBucket(rows) ==
    LET keys == {r.path : r \in rows}
                \cup {r.path_thumbnail.v :
                         r \in {x \in rows : ~x.path_thumbnail.isNone}}
    IN  [k \in keys |-> S3Object(PathShort)]

InitFound ==
    /\ handles = AllHandles
    /\ \E rows \in SUBSET FoundRows :
          /\ filesTbl = rows
          /\ s3 = FoundBucket(rows)
    /\ bed = (IdB :> BedRow(IdB, BedStats(StatsInt1), BedClassification(ClsHg38)))
    /\ qdrant = EmptyTable
    /\ phc = EmptyTable
    /\ call = [p \in Procs |-> IdleCall]
    /\ ret = NoRet
    /\ ncalls = 0

\* a bed file whose descriptor carries its size
SizedDesc == [BedDesc EXCEPT !.size = Some(LocalFS[PathXBed])]

NextRead ==
    \/ AddEnter(MainProc, {IdA},
                {[GoodPayload EXCEPT
                     !.files = Some([NoFiles EXCEPT !.bed_file = Some(SizedDesc)])]})
    \/ AddRun(MainProc)
    \/ AllIdle /\ \E identifier \in Ids : Get(identifier)
    \/ AllIdle /\ \E identifier \in Ids : GetStats(identifier)
    \/ AllIdle /\ \E identifier \in Ids : GetPlots(identifier)
    \/ AllIdle /\ \E identifier \in Ids : GetFiles(identifier)
    \/ AllIdle /\ \E identifier \in Ids : GetClassification(identifier)

SpecRead == InitFound /\ [][NextRead]_vars

\* ------------------------------------------------------------------------
\* Properties
\* ------------------------------------------------------------------------
\* A call's frame in a terminal state shows the arguments it was given
\* (args), what it raised (err, at) and the writes it made (log). ret shows
\* the last get()/delete(); AddBegin clears it, so while ret.op is "get" or
\* "delete" the stores are those the operation ran on.

\* the documented remote key of a generic asset:
\* <category>/<id[0]>/<id[1]>/<basename>
ConventionKey(category, identifier, path) ==
    category \o <<"/", identifier[1], "/", identifier[2], "/">> \o Basename(path)

\* the documented remote key of a plot: stats/<identifier>/<basename>
PlotConventionKey(identifier, path) ==
    <<"s","t","a","t","s","/">> \o identifier \o <<"/">> \o Basename(path)

\* the descriptors a caller supplied under the given argument
Supplied(arg, fields) == {k \in SeqRange(fields) : ~arg.v[k].isNone}

\* C1: for every identifier that has no row in the Bed table,
\* get(identifier) fails with RecordNotFound and returns no view.
C1_GetAbsentRecordNotFound ==
    (ret.op = "get" /\ ret.identifier \notin DOMAIN bed)
        => (ret.err = "RecordNotFound" /\ ret.view.isNone)

\* a partition entry that stands for the descriptor supplied under key k
Appears(entry, k, raw) ==
    (~entry.isNone) /\ entry.v.name = k /\ entry.v.description = raw.description

\* what get() shows of the statistics and classification a finished add()
\* was given
StatsRoundTrip(c, view) ==
    /\ view.stats = BedStats(c.args.stats.v)
    /\ (c.args.stats.v = StatsStr2 => view.stats.number_of_regions = Some(2))
    /\ (c.args.stats.v = StatsInt1 => view.stats.number_of_regions = Some(1))
    /\ view.classification = BedClassification(c.args.classification.v)
    /\ view.id = c.identifier

DescriptorsRoundTrip(c, view) ==
    /\ \A k \in Supplied(c.args.files, BedFilesFields) :
          Appears(view.files[k], k, c.args.files.v[k].v)
    /\ \A k \in Supplied(c.args.plots, BedPlotsFields) :
          Appears(view.plots[k], k, c.args.plots.v[k].v)

\* C2 as stated: after every successful add(id, ...), under any combination
\* of the three flags, get(id) returns the statistics and classification of
\* the input after coercion, every supplied file descriptor in the files
\* partition and every supplied plot descriptor in the plots partition.
C2_RoundTripAnyFlags ==
    \A p \in Procs : call[p].pc = "done" =>
        \A phc_ok \in BOOLEAN :
            LET r == GetResult(call[p].identifier, phc_ok)
            IN  /\ r.err = ""
                /\ StatsRoundTrip(call[p], r.view.v)
                /\ DescriptorsRoundTrip(call[p], r.view.v)

\* C2 amended: the statistics and classification round-trip under every
\* combination of flags; the supplied descriptors appear in their partitions
\* when asset sync (upload_s3) was requested, and with asset sync off both
\* partitions of the view are empty.
C2_RoundTrip ==
    \A p \in Procs : call[p].pc = "done" =>
        \A phc_ok \in BOOLEAN :
            LET r == GetResult(call[p].identifier, phc_ok)
            IN  /\ r.err = ""
                /\ StatsRoundTrip(call[p], r.view.v)
                /\ call[p].upload_s3 => DescriptorsRoundTrip(call[p], r.view.v)
                /\ (~call[p].upload_s3) =>
                      /\ \A k \in SeqRange(BedFilesFields) : r.view.v.files[k].isNone
                      /\ \A k \in SeqRange(BedPlotsFields) : r.view.v.plots[k].isNone

\* a synced add() given a numeric string, a file and a plot has succeeded
C2_Witness ==
    \E p \in Procs :
        /\ call[p].pc = "done"
        /\ call[p].upload_s3
        /\ call[p].args.stats.v = StatsStr2
        /\ Supplied(call[p].args.files, BedFilesFields) # {}
        /\ Supplied(call[p].args.plots, BedPlotsFields) # {}

\* the category folder of a primary file
Category(k) == IF k = "bed_file" THEN BED_PATH_FOLDER ELSE BIGBED_PATH_FOLDER

\* the local file a supplied plot path or thumbnail path names
PlotLocal(c, rel) == Join2(c.args.local_path.v, rel)

\* C3: after a successful add with asset sync enabled, get(id) returns
\* every file and plot descriptor with path equal to the remote key of the
\* documented convention and with size equal to the byte size of the
\* original local file.
C3_SyncedRoundTripKeyAndSize ==
    \A p \in Procs : (call[p].pc = "done" /\ call[p].upload_s3) =>
        LET c == call[p]
            view == GetResult(c.identifier, TRUE).view.v
        IN  /\ \A k \in Supplied(c.args.files, BedFilesFields) :
                  LET src == c.args.files.v[k].v.path.v
                  IN  /\ ~view.files[k].isNone
                      /\ view.files[k].v.path = ConventionKey(Category(k), c.identifier, src)
                      /\ view.files[k].v.size = Some(LocalFS[src])
            /\ \A k \in Supplied(c.args.plots, BedPlotsFields) :
                  LET rel == c.args.plots.v[k].v.path.v
                  IN  /\ ~view.plots[k].isNone
                      /\ view.plots[k].v.path = PlotConventionKey(c.identifier, rel)
                      /\ view.plots[k].v.size = Some(LocalFS[PlotLocal(c, rel)])

\* the frame is past the bed_file branch of upload_files_s3
BedFileUploaded(c) ==
    /\ c.pc \in {"s3_bigbed", "s3_plot_path", "s3_plot_thumb", "commit", "done"}
    /\ c.upload_s3
    /\ "bed_file" \in Supplied(c.args.files, BedFilesFields)

\* C4: with asset sync enabled and the object store available, the remote
\* key of a primary file descriptor is
\* <category folder>/<id[0]>/<id[1]>/<base name of its local path>; for
\* identifier "abc123" and bed_file path "/tmp/x.bed" the descriptor path
\* is bed_files/a/b/x.bed.
C4_PrimaryKeyFromIdentifier ==
    \A p \in Procs : (call[p].pc # "idle" /\ BedFileUploaded(call[p])) =>
        LET c == call[p]
            src == c.args.files.v.bed_file.v.path.v
        IN  /\ c.files.bed_file.v.path = ConventionKey(BED_PATH_FOLDER, c.identifier, src)
            /\ (c.identifier = IdA /\ src = PathXBed) =>
                  c.files.bed_file.v.path =
                     <<"b","e","d","_","f","i","l","e","s","/","a","/","b","/",
                       "x",".","b","e","d">>

IsS3(e) == e = "s3"

\* the plots a caller supplied with a thumbnail
WithThumb(c) ==
    {k \in Supplied(c.args.plots, BedPlotsFields) :
        TruthyOptStr(c.args.plots.v[k].v.path_thumbnail)}

\* the descriptor upload_plots_s3 returned for plot k, and the objects in
\* the bucket, are those of the convention
PlotStored(c, k) ==
    LET raw == c.args.plots.v[k].v
        key == PlotConventionKey(c.identifier, raw.path.v)
    IN  /\ ~c.plots[k].isNone
        /\ c.plots[k].v.path = key
        /\ key \in DOMAIN s3
        /\ s3[key].src = PlotLocal(c, raw.path.v)
        /\ IF k \in WithThumb(c)
           THEN LET tkey == PlotConventionKey(c.identifier, raw.path_thumbnail.v)
                IN  /\ c.plots[k].v.path_thumbnail = Some(tkey)
                    /\ tkey \in DOMAIN s3
                    /\ s3[tkey].src = PlotLocal(c, raw.path_thumbnail.v)
           ELSE c.plots[k].v.path_thumbnail = PyNone

\* the Files row committed for plot k carries the same keys
PlotRowStored(c, k) ==
    \E r \in RowsOf(c.identifier) :
        /\ r.name = k
        /\ r.type = "plot"
        /\ r.path = c.plots[k].v.path
        /\ r.path_thumbnail = c.plots[k].v.path_thumbnail

\* C5: with asset sync enabled, once upload_plots_s3 has returned, every
\* supplied plot descriptor was uploaded to and is stored with path
\* stats/<identifier>/<base name of its path>; its thumbnail, when present,
\* was uploaded to and is stored with stats/<identifier>/<base name of the
\* thumbnail path>; a plot without thumbnail keeps a null thumbnail path and
\* causes no upload (the call made one upload per file, per plot and per
\* thumbnail, and no other).
C5_PlotKeys ==
    \A p \in Procs : (call[p].pc \in {"commit", "done"} /\ call[p].upload_s3) =>
        LET c == call[p]
        IN  /\ \A k \in Supplied(c.args.plots, BedPlotsFields) : PlotStored(c, k)
            /\ Len(SelectSeq(c.log, IsS3)) =
                  Cardinality(Supplied(c.args.files, BedFilesFields))
                  + Cardinality(Supplied(c.args.plots, BedPlotsFields))
                  + Cardinality(WithThumb(c))
            /\ c.pc = "done" =>
                  \A k \in Supplied(c.args.plots, BedPlotsFields) : PlotRowStored(c, k)

\* a synced add() given a plot with and a plot without thumbnail succeeded
C5_Witness ==
    \E p \in Procs :
        /\ call[p].pc = "done"
        /\ call[p].upload_s3
        /\ WithThumb(call[p]) # {}
        /\ Supplied(call[p].args.plots, BedPlotsFields) \ WithThumb(call[p]) # {}

\* the frame's call would commit exactly the rows the table already holds
\* for its identifier: it repeats the inputs of the add() that wrote them
RepeatsCommitted(c) ==
    /\ c.identifier \in DOMAIN bed
    /\ bed[c.identifier] = BedRow(c.identifier, c.stats, c.classification)
    /\ RowsOf(c.identifier) = NewFilesRows(c)

\* C6: calling add twice for the same identifier with overwrite=true and
\* identical inputs, the second call completes as the transition
\* present -> present (it does not fail on the row that is already there),
\* and exactly one relational row exists for the identifier.
C6_OverwriteTwiceCompletes ==
    \A p \in Procs :
        (call[p].pc = "failed" /\ call[p].at = "commit" /\ call[p].overwrite
            /\ RepeatsCommitted(call[p]))
        => call[p].err # "IntegrityError"

\* C7: delete(identifier) moves a present identifier to absent: afterwards
\* the Bed row and all of its Files rows are gone, so that get(identifier)
\* fails.
C7_DeleteRemoves ==
    ret.op = "delete" =>
        /\ ret.identifier \notin DOMAIN bed
        /\ RowsOf(ret.identifier) = {}
        /\ GetResult(ret.identifier, TRUE).err # ""

\* the place of a write in the order of the claim
Rank(e) ==
    CASE e = "pephub" -> 1 [] e = "qdrant" -> 2 [] e = "s3" -> 3 [] e = "commit" -> 4

\* the place of a step of add() in that order
StepRank(pc) ==
    CASE pc = "validate" -> 0 [] pc = "pephub" -> 1 [] pc = "qdrant" -> 2
      [] pc \in {"s3_bed", "s3_bigbed", "s3_plot_path", "s3_plot_thumb"} -> 3
      [] pc = "commit" -> 4

\* the writes a call was asked for
WantsPephub(c) == c.upload_pephub /\ c.metadata # {}

WantsS3(c) ==
    c.upload_s3 /\ (Supplied(c.args.files, BedFilesFields) # {}
                    \/ Supplied(c.args.plots, BedPlotsFields) # {})

\* C8: in every execution of add the writes happen in the order
\* external-metadata write, vector-index upsert, object-store uploads,
\* relational commit; nothing is written after the commit, and a call that
\* returned has made every write it was asked for.
C8_WriteOrder ==
    \A p \in Procs : call[p].pc # "idle" =>
        LET c == call[p]
        IN  /\ \A i, j \in 1..Len(c.log) :
                  i < j => /\ Rank(c.log[i]) <= Rank(c.log[j])
                           /\ c.log[i] \notin {"commit", "qdrant", "pephub"}
                                 \/ c.log[i] # c.log[j]
            /\ ("commit" \in SeqRange(c.log)) <=> (c.pc = "done")
            /\ c.pc = "done" =>
                  /\ c.log[Len(c.log)] = "commit"
                  /\ WantsPephub(c) => "pephub" \in SeqRange(c.log)
                  /\ c.add_to_qdrant => "qdrant" \in SeqRange(c.log)
                  /\ WantsS3(c) => "s3" \in SeqRange(c.log)

\* an add() with all three flags set has written to all four stores
C8_Witness ==
    \E p \in Procs :
        /\ call[p].pc = "done"
        /\ SeqRange(call[p].log) = {"pephub", "qdrant", "s3", "commit"}

\* a call that failed after validation: the writes in its log are in the
\* stores, every requested step before the failing one was made, and no
\* step after it
FailedLeavesEarlierEffects(c) ==
    /\ c.err # ""
    /\ \A e \in SeqRange(c.log) : Rank(e) <= StepRank(c.at) /\ e # "commit"
    /\ c.at # "validate"
    /\ (WantsPephub(c) /\ StepRank(c.at) > 1) <=> ("pephub" \in SeqRange(c.log))
    /\ (c.add_to_qdrant /\ StepRank(c.at) > 2) <=> ("qdrant" \in SeqRange(c.log))
    /\ (StepRank(c.at) > 3) =>
          Len(SelectSeq(c.log, IsS3)) =
             IF c.upload_s3
             THEN Cardinality(Supplied(c.args.files, BedFilesFields))
                  + Cardinality(Supplied(c.args.plots, BedPlotsFields))
                  + Cardinality(WithThumb(c))
             ELSE 0
    /\ "pephub" \in SeqRange(c.log) =>
          c.identifier \in DOMAIN phc /\ phc[c.identifier] = c.metadata
    /\ "qdrant" \in SeqRange(c.log) =>
          /\ c.identifier \in DOMAIN qdrant
          /\ qdrant[c.identifier] =
                QdrantEntry(c.args.files.v.bed_file.v.path.v, c.metadata)

\* a commit that failed after the other steps: the objects are in the
\* bucket and, the identifier having been absent, it has no row
FailedCommitLeavesNoRow(c) ==
    c.at = "commit" =>
        /\ c.upload_s3 =>
              /\ \A k \in Supplied(c.args.files, BedFilesFields) :
                    /\ c.files[k].v.path \in DOMAIN s3
                    /\ s3[c.files[k].v.path].src = c.args.files.v[k].v.path.v
              /\ \A k \in Supplied(c.args.plots, BedPlotsFields) : PlotStored(c, k)
        /\ c.err = "OperationalError" =>
              c.identifier \notin DOMAIN bed /\ RowsOf(c.identifier) = {}

\* a failed call does nothing more: no store changes while its frame lasts
FailedIsTerminal ==
    \A p \in Procs : call[p].pc = "failed" =>
        /\ UNCHANGED stores
        /\ call'[p].pc \in {"failed", "idle"}

C10_InvalidInputValidationError ==
    \A p \in Procs : (call[p].pc # "idle" /\ call[p].args \in InvalidPayloads) =>
        /\ call[p].pc = "failed"
        /\ call[p].err = "ValidationError"
        /\ call[p].log = <<>>

\* ------------------------------------------------------------------------
\* Properties of the context, its asset operations, and the agent on a
\* context with missing handles (SpecContext)
\* ------------------------------------------------------------------------
\* ret shows the last operation other than add(): its arguments, what it
\* raised, and for an operation that writes, the store as it was before.

\* C11: for a present identifier get succeeds whatever the external
\* metadata service does: when the fetch fails (no client handle, service
\* error, document absent) the view is returned with empty metadata and no
\* error; when it succeeds the view carries the document.
C11_GetSwallowsMetadataFailure ==
    /\ (ret.op = "get" /\ ret.identifier \in DOMAIN bed) =>
          /\ ret.err = ""
          /\ ~ret.view.isNone
          /\ ret.warning # "" => ret.view.v.raw_metadata = {}
          /\ ret.warning = "" => ret.view.v.raw_metadata = phc[ret.identifier]
    /\ \A identifier \in DOMAIN bed, phc_ok \in BOOLEAN :
          GetResult(identifier, phc_ok).err = ""

\* a get of a present identifier on a context without metadata client
C11_Witness ==
    /\ ret.op = "get"
    /\ ret.identifier \in DOMAIN bed
    /\ ~handles.phc
    /\ ret.warning = "AttributeError"
    /\ ret.err = ""

\* the handle a client's constructor outcome must leave
HandleAfter(outcome) == outcome = ""

\* C12: construction of the context succeeds for every combination of
\* failing client constructions among vector index, embedding models,
\* external metadata service and object store: each failed client leaves
\* its own handle unavailable, none raises, and the handles of the clients
\* that were constructed are available.
C12_ConstructionNeverRaises ==
    ret.op = "init" =>
        /\ handles.state = "ok"
        /\ handles.qdrant = HandleAfter(ret.outcomes.qdrant)
        /\ handles.t2bsi = HandleAfter(ret.outcomes.t2bsi)
        /\ handles.r2v = HandleAfter(ret.outcomes.r2v)
        /\ handles.phc = HandleAfter(ret.outcomes.phc)
        /\ handles.boto3 = HandleAfter(ret.outcomes.boto3)

\* the class the code raises for an unavailable store
\* (BedbaseS3ConnectionError, as upload_s3 and delete_s3 do)
IsStorageUnavailable(e) == e = "BedbaseS3ConnectionError"

\* C13: on a context constructed with an unreachable vector index the
\* construction succeeded and the qdrant handle is unavailable, and every
\* embedding upload of a readable bed file, called directly or through add
\* with the vector flag set, fails with StorageUnavailable and leaves the
\* vector index as it was.
C13_VectorIndexUnavailable ==
    /\ (ret.op = "init" /\ ret.outcomes.qdrant = "ResponseHandlingException"
            /\ ret.outcomes.r2v = "") =>
          handles.state = "ok" /\ ~handles.qdrant
    /\ (ret.op = "upload_qdrant" /\ ~handles.qdrant
            /\ ret.bed_file.kind \in {"str", "RegionSet"}
            /\ ret.bed_file.path \in DOMAIN LocalFS) =>
          IsStorageUnavailable(ret.err) /\ qdrant = ret.before
    /\ \A p \in Procs :
          (call[p].pc = "failed" /\ call[p].at = "qdrant" /\ ~handles.qdrant
              /\ ~call[p].files.bed_file.isNone
              /\ call[p].files.bed_file.v.path \in DOMAIN LocalFS) =>
             IsStorageUnavailable(call[p].err) /\ "qdrant" \notin SeqRange(call[p].log)

\* C14: an upload of one file fails with StorageUnavailable
\* (BedbaseS3ConnectionError) when there is no object-store handle, whether
\* or not the local file exists; fails with LocalFileMissing
\* (BedBaseConfError) when the handle exists and the local file does not;
\* in both cases nothing is handed to the object store; otherwise exactly
\* one upload to the remote key is made.
C14_UploadOne ==
    ret.op \in {"upload_s3", "_upload_s3"} =>
        IF ~handles.boto3
        THEN ret.err = "BedbaseS3ConnectionError" /\ ret.attempts = <<>>
             /\ s3 = ret.before
        ELSE IF ret.file_path \notin DOMAIN LocalFS
        THEN ret.err = "BedBaseConfError" /\ ret.attempts = <<>> /\ s3 = ret.before
        ELSE /\ ret.attempts = <<ret.s3_path>>
             /\ ret.err = "" => s3 = Put(ret.before, ret.s3_path, S3Object(ret.file_path))
             /\ ret.err # "" => s3 = ret.before

\* C14 for BedBaseConfig.upload_s3 alone
C14_ConfigUploadOne ==
    ret.op = "_upload_s3" \/ C14_UploadOne

\* the uploads upload_files_s3 is asked for: per descriptor, in field
\* order, the primary file and then the thumbnail if there is one
PlannedOf(identifier, batch, k) ==
    LET value == batch.files[k].v
        folder == S3OutputBaseFolder(batch.type).v
    IN  <<[k |-> k, part |-> "path",
           file_path |-> GetAbsolutePath(value.path, batch.base_path),
           s3_path |-> ConfigS3Path(folder, identifier, value.path)]>>
        \o (IF TruthyOptStr(value.path_thumbnail)
            THEN <<[k |-> k, part |-> "thumbnail",
                    file_path |-> GetAbsolutePath(value.path_thumbnail.v,
                                                  batch.base_path),
                    s3_path |-> ConfigS3Path(folder, identifier,
                                             value.path_thumbnail.v)]>>
            ELSE <<>>)

RECURSIVE PlannedUploads(_, _, _)
PlannedUploads(identifier, batch, i) ==
    IF S3OutputBaseFolder(batch.type).isNone \/ i > Len(batch.fields) THEN <<>>
    ELSE (IF batch.files[batch.fields[i]].isNone THEN <<>>
          ELSE PlannedOf(identifier, batch, batch.fields[i]))
         \o PlannedUploads(identifier, batch, i + 1)

\* the place of the first planned upload that cannot succeed, one past the
\* end when all can
FirstFailing(planned, svc_fail) ==
    LET bad == {i \in 1..Len(planned) :
                   UploadS3Error(planned[i].file_path, svc_fail) # ""}
    IN  IF bad = {} THEN Len(planned) + 1
        ELSE CHOOSE i \in bad : \A j \in bad : i <= j

\* the planned uploads of the last upload_files_s3 call, and its first
\* failing one
RetPlanned == PlannedUploads(ret.identifier, ret.batch, 1)

RetFailing == FirstFailing(RetPlanned, ret.svc_fail)

\* the uploads add() is asked for
PlannedCount(c) ==
    Cardinality(Supplied(c.args.files, BedFilesFields))
    + Cardinality(Supplied(c.args.plots, BedPlotsFields))
    + Cardinality(WithThumb(c))

\* C15: the first upload of a batch that fails, primary file or thumbnail,
\* aborts the batch: the failure reaches the caller, no descriptor list is
\* returned, the uploads before the failing one were made, and none is
\* attempted after it; a batch without failure makes every upload and
\* returns the descriptors. In add, a failed upload ends the call before
\* the remaining uploads and before the commit.
C15_FirstFailureAbortsBatch ==
    /\ (ret.op = "upload_files_s3" /\ ~S3OutputBaseFolder(ret.batch.type).isNone) =>
          LET f == RetFailing
              n == Len(ret.attempts)
          IN  /\ (ret.err # "") <=> (f <= Len(RetPlanned))
              /\ ret.err # "" =>
                    /\ ret.returned.isNone
                    /\ ret.err = UploadS3Error(RetPlanned[f].file_path, ret.svc_fail)
                    /\ n \in {f - 1, f}
              /\ ret.err = "" => (~ret.returned.isNone) /\ n = Len(RetPlanned)
              /\ \A i \in 1..n : ret.attempts[i] = RetPlanned[i].s3_path
              /\ DOMAIN s3 = DOMAIN ret.before
                                \cup {RetPlanned[i].s3_path : i \in 1..(f - 1)}
    /\ \A p \in Procs :
          (call[p].pc = "failed"
              /\ call[p].at \in {"s3_bed", "s3_bigbed", "s3_plot_path", "s3_plot_thumb"}) =>
             /\ Len(SelectSeq(call[p].log, IsS3)) < PlannedCount(call[p])
             /\ "commit" \notin SeqRange(call[p].log)

\* a batch of three uploads whose second one, a thumbnail, was refused
C15_Witness ==
    /\ ret.op = "upload_files_s3"
    /\ ret.err = "S3UploadFailedError"
    /\ Len(RetPlanned) = 3
    /\ RetFailing = 2
    /\ RetPlanned[2].part = "thumbnail"
    /\ Len(ret.attempts) = 2

\* the descriptor upload_files_s3 holds for a planned upload, and the one
\* it was given
RetDesc(u) == ret.files[u.k].v

RetOrig(u) == ret.batch.files[u.k].v

\* a primary file of add(): what the frame holds and the path it was given
FrameFile(c, k) == c.files[k].v

GivenPath(c, k) == c.args.files.v[k].v.path.v

\* the frame holds validated descriptors
Typed(c) == c.pc # "idle" /\ ~(c.pc = "failed" /\ c.at = "validate")

C17_DeleteManyBestEffort ==
    (ret.op = "delete_files_s3" /\ handles.boto3) =>
        KeysOf(ret.files) \subseteq SeqRange(ret.attempts)

\* id.replace("-", "")
RECURSIVE StripHyphens(_)
StripHyphens(id) ==
    IF id = <<>> THEN <<>>
    ELSE (IF Head(id) = "-" THEN <<>> ELSE <<Head(id)>>) \o StripHyphens(Tail(id))

\* C18: on a context with text-to-vector interface and vector index,
\* text_to_bed_search(query, limit, offset) raises nothing and returns at
\* most limit entries in the order of the index; every returned entry
\* carries the view get() gives for its identifier with the hyphens
\* stripped, and a hit without record is omitted.
C18_SearchResolvesHits ==
    (ret.op = "search" /\ handles.t2bsi /\ handles.qdrant) =>
        /\ ret.err = ""
        /\ ~ret.results.isNone
        /\ Len(ret.results.v) <= ret.limit
        /\ \A i \in 1..Len(ret.results.v) :
              LET hit == ret.results.v[i]
              IN  /\ StripHyphens(hit.id) \in DOMAIN bed
                  /\ hit.metadata = GetResult(StripHyphens(hit.id), TRUE).view
        /\ \A i, j \in 1..Len(ret.results.v) :
              i < j => \E a, b \in 1..Len(ScoreOrder) :
                          /\ a < b
                          /\ ScoreOrder[a] = StripHyphens(ret.results.v[i].id)
                          /\ ScoreOrder[b] = StripHyphens(ret.results.v[j].id)

\* C19: upload_qdrant given a bed_file that is neither a path nor a region
\* set fails with InvalidInputError (BedBaseConfError); no embedding model
\* is invoked and the vector index is as it was.
C19_InvalidBedFileRejected ==
    (ret.op = "upload_qdrant" /\ ret.bed_file.kind \notin {"str", "RegionSet"}) =>
        /\ ret.err = "BedBaseConfError"
        /\ ~ret.encoded
        /\ qdrant = ret.before

\* such a call on a context whose vector index is available
C19_Witness ==
    /\ ret.op = "upload_qdrant"
    /\ ret.bed_file = OtherArg
    /\ handles.qdrant
    /\ ret.err # ""

\* a step of add() leaves alone the stores whose flag is off
FlagsFrame ==
    \A p \in Procs : call[p].pc # "idle" =>
        /\ (~call[p].upload_pephub) => phc' = phc
        /\ (~call[p].add_to_qdrant) => qdrant' = qdrant
        /\ (~call[p].upload_s3) => s3' = s3 /\ filesTbl' = filesTbl

\* C20: each step of add touches its store only when its flag is set: with
\* the metadata flag off the external metadata service is unchanged, with
\* the vector flag off the vector index is unchanged, with asset sync off
\* the object store is unchanged and no Files row is inserted, only the
\* Bed row is committed, whatever descriptors were supplied.
C20_FlagsSelectStores ==
    /\ [][FlagsFrame]_vars
    /\ [](\A p \in Procs : (call[p].pc = "done" /\ ~call[p].upload_s3) =>
             /\ call[p].identifier \in DOMAIN bed
             /\ RowsOf(call[p].identifier) = {}
             /\ "s3" \notin SeqRange(call[p].log))

\* an add() with every flag off and files and plots supplied has
\* succeeded: the Bed row is the only thing written
C20_Witness ==
    \E p \in Procs :
        /\ call[p].pc = "done"
        /\ ~call[p].upload_pephub /\ ~call[p].add_to_qdrant /\ ~call[p].upload_s3
        /\ Supplied(call[p].args.files, BedFilesFields) # {}
        /\ Supplied(call[p].args.plots, BedPlotsFields) # {}
        /\ call[p].identifier \in DOMAIN bed
        /\ filesTbl = {} /\ s3 = EmptyTable /\ qdrant = EmptyTable /\ phc = EmptyTable

\* ------------------------------------------------------------------------
\* Properties of concurrent callers (SpecConcurrent)
\* ------------------------------------------------------------------------
\* two callers whose calls are for the same identifier
SameId(p, q) ==
    /\ p # q
    /\ Typed(call[p]) /\ Typed(call[q])
    /\ call[p].identifier = call[q].identifier

\* the call has made its uploads and its upsert and has not committed
BeforeCommit(c) ==
    /\ c.pc = "commit"
    /\ "s3" \in SeqRange(c.log)
    /\ "qdrant" \in SeqRange(c.log)

\* the vector entry a call upserts
EntryOf(c) == QdrantEntry(GivenPath(c, "bed_file"), c.metadata)

\* the vector entry in the index is that of call c
IndexHolds(c) ==
    /\ c.identifier \in DOMAIN qdrant
    /\ qdrant[c.identifier] = EntryOf(c)

\* the object under the key of c's bed file is the one c uploaded
BucketHolds(c) ==
    /\ FrameFile(c, "bed_file").path \in DOMAIN s3
    /\ s3[FrameFile(c, "bed_file").path].src = GivenPath(c, "bed_file")

\* the object and the vector entry in the stores are those of call c
StoresHold(c) == IndexHolds(c) /\ BucketHolds(c)

\* what call c wrote has not been removed: its identifier has a vector
\* entry and the key of its bed file an object, its own or a later writer's
WritesStay(c) ==
    /\ c.identifier \in DOMAIN qdrant
    /\ FrameFile(c, "bed_file").path \in DOMAIN s3

KeysWritten(c) ==
    {FrameFile(c, k).path :
        k \in {f \in Supplied(c.args.files, BedFilesFields) :
                 FrameFile(c, f).path # GivenPath(c, f)}}
    \cup (IF c.plots_output = PyNone THEN {}
          ELSE {c.plots_output[k].v.path :
                   k \in {f \in SeqRange(BedPlotsFields) :
                            ~c.plots_output[f].isNone}}
               \cup
               {c.plots_output[k].v.path_thumbnail.v :
                   k \in {f \in SeqRange(BedPlotsFields) :
                            /\ ~c.plots_output[f].isNone
                            /\ ~c.plots_output[f].v.path_thumbnail.isNone}})
    \cup (IF c.file_s3_path.isNone THEN {} ELSE {c.file_s3_path.v})

\* two callers whose calls are for different identifiers
DifferentIds(p, q) ==
    /\ p # q
    /\ Typed(call[p]) /\ Typed(call[q])
    /\ call[p].identifier # call[q].identifier

\* C22: adds for two different identifiers never write to the same
\* object-store key, in any interleaving, also when both supply files with
\* the same base name or the identifiers share their first two characters;
\* and the row, vector entry and document of each are keyed by its own
\* identifier.
C22_DifferentIdsIndependent ==
    \A p, q \in Procs : DifferentIds(p, q) =>
        /\ KeysWritten(call[p]) \cap KeysWritten(call[q]) = {}
        /\ \A r \in NewFilesRows(call[p]) : r.bedfile_id = call[p].identifier

\* a step of a call leaves alone the row, the Files rows, the vector entry
\* and the document of every other identifier
OthersKept(c) ==
    \A i \in Ids \ {c.identifier} :
        /\ (i \in DOMAIN bed) => (i \in DOMAIN bed' /\ bed'[i] = bed[i])
        /\ (i \in DOMAIN qdrant) => (i \in DOMAIN qdrant' /\ qdrant'[i] = qdrant[i])
        /\ (i \in DOMAIN phc) => (i \in DOMAIN phc' /\ phc'[i] = phc[i])
        /\ {r \in filesTbl' : r.bedfile_id = i} = {r \in filesTbl : r.bedfile_id = i}

\* C22 for the stores keyed by the identifier alone
C22_KeyedStoresIndependent ==
    [][\A p \in Procs :
          (call[p].pc # "idle" /\ call'[p] # call[p]) => OthersKept(call[p])]_vars

\* ------------------------------------------------------------------------
\* Properties of a retried add (SpecRetry)
\* ------------------------------------------------------------------------
\* the exception is a failure of a store, not an answer a healthy store
\* gives to this call: a refused upsert, upload or commit, or a refused
\* document write that is not the conflict with an existing document
IsStoreFailure(err, conflict) ==
    \/ err \in {"ResponseHandlingException", "S3UploadFailedError",
                "OperationalError"}
    \/ err = "ResponseError" /\ ~conflict

\* the metadata service holds a document for the call's identifier and the
\* call does not ask to overwrite it
PhcConflict(c) == c.identifier \in DOMAIN phc /\ ~c.overwrite

\* the frame is that of a retry of an add() for an absent identifier that a
\* store failure ended after it had written something
RetryOfPartialAdd(c) ==
    /\ ret.op = "add"
    /\ c.pc # "idle"
    /\ ret.absent
    /\ ret.log # <<>>
    /\ ret.err \in {"ResponseHandlingException", "S3UploadFailedError",
                    "OperationalError", "ResponseError"}

\* C23: a retried add, after the first add for an absent identifier failed
\* having written to some store, fails only if a store fails during the
\* retry, and when it returns the identifier has its row, the vector
\* entry, the document and one object per descriptor, as requested.
C23_RetrySelfHeals ==
    \A p \in Procs : RetryOfPartialAdd(call[p]) =>
        LET c == call[p]
        IN  /\ c.pc = "failed" => IsStoreFailure(c.err, PhcConflict(c))
            /\ c.pc = "done" =>
                  /\ c.identifier \in DOMAIN bed
                  /\ RowsOf(c.identifier) = NewFilesRows(c)
                  /\ c.add_to_qdrant => IndexHolds(c)
                  /\ WantsPephub(c) => phc[c.identifier] = c.metadata
                  /\ \A r \in RowsOf(c.identifier) : r.path \in DOMAIN s3

\* a step that changes the Bed or the Files table is the commit of one
\* call, for an identifier without row, and inserts that call's Bed row
\* and all of its Files rows together
TablesChangeTogether ==
    (bed' # bed \/ filesTbl' # filesTbl) =>
        \E p \in Procs :
            /\ call[p].pc = "commit"
            /\ call'[p].pc = "done"
            /\ call[p].identifier \notin DOMAIN bed
            /\ bed' = Put(bed, call[p].identifier,
                          BedRow(call[p].identifier, call[p].stats,
                                 call[p].classification))
            /\ filesTbl' = filesTbl \cup NewFilesRows(call[p])

\* a commit that fails inserts nothing
FailedCommitInsertsNothing ==
    \A p \in Procs :
        (call[p].pc = "commit" /\ call'[p].pc = "failed") =>
            bed' = bed /\ filesTbl' = filesTbl

\* C24: the relational write of add is atomic, also under concurrent adds:
\* the Bed row and the Files rows of a call are inserted in one step or not
\* at all, a failed commit inserts nothing, every Files row references an
\* existing Bed row, and a call that returned has its Bed row and all of
\* its Files rows in the tables.
C24_RelationalWriteAtomic ==
    /\ [][TablesChangeTogether]_vars
    /\ [][FailedCommitInsertsNothing]_vars
    /\ [](\A r \in filesTbl : r.bedfile_id \in DOMAIN bed)
    /\ [](\A p \in Procs : call[p].pc = "done" =>
             /\ call[p].identifier \in DOMAIN bed
             /\ bed[call[p].identifier] =
                   BedRow(call[p].identifier, call[p].stats, call[p].classification)
             /\ NewFilesRows(call[p]) \subseteq filesTbl)

\* one caller's add committed its rows; the other caller's commit, for
\* another identifier and with Files rows to insert, failed and left none
C24_Witness ==
    \E p, q \in Procs :
        /\ DifferentIds(p, q)
        /\ call[p].pc = "done"
        /\ RowsOf(call[p].identifier) # {}
        /\ call[q].pc = "failed" /\ call[q].at = "commit"
        /\ call[q].err = "OperationalError"
        /\ NewFilesRows(call[q]) # {}
        /\ RowsOf(call[q].identifier) = {}
        /\ call[q].identifier \notin DOMAIN bed

\* ------------------------------------------------------------------------
\* Properties of the read operations (SpecRead)
\* ------------------------------------------------------------------------
KnownPlot(name) == name \in SeqRange(BedPlotsFields)

KnownFile(name) == name \in SeqRange(BedFilesFields)

\* the slots of a partition filled from a row with this name
SlotsFor(partition, fields, name) ==
    {k \in SeqRange(fields) : (~partition[k].isNone) /\ partition[k].v.name = name}

\* the slots of a partition that hold a descriptor
Filled(partition, fields) == {k \in SeqRange(fields) : ~partition[k].isNone}

\* the view places the rows of the identifier as the claim says
Partitioned(identifier, view) ==
    /\ \A r \in RowsOf(identifier) :
          IF KnownPlot(r.name)
          THEN /\ view.plots[r.name] =
                     Some(FileModel(r.name, r.path, r.path_thumbnail,
                                    r.description, r.size))
               /\ SlotsFor(view.files, BedFilesFields, r.name) = {}
          ELSE IF KnownFile(r.name)
          THEN /\ view.files[r.name] =
                     Some(FileModel(r.name, r.path, PyNone, r.description, r.size))
               /\ SlotsFor(view.plots, BedPlotsFields, r.name) = {}
          ELSE /\ SlotsFor(view.files, BedFilesFields, r.name) = {}
               /\ SlotsFor(view.plots, BedPlotsFields, r.name) = {}
    /\ Cardinality(Filled(view.plots, BedPlotsFields))
       + Cardinality(Filled(view.files, BedFilesFields))
       = Cardinality({r \in RowsOf(identifier) :
                         KnownPlot(r.name) \/ KnownFile(r.name)})

\* C25: get places every Files row of a present identifier in at most one
\* partition: a row named after a plot field in the plots partition only,
\* otherwise a row named after a file field in the files partition only;
\* a row named after neither appears in no partition and the read does not
\* fail.
C25_RowsPartitioned ==
    /\ (ret.op = "get" /\ ret.identifier \in DOMAIN bed) =>
          /\ ret.err = ""
          /\ Partitioned(ret.identifier, ret.view.v)
    /\ \A identifier \in DOMAIN bed, phc_ok \in BOOLEAN :
          /\ GetResult(identifier, phc_ok).err = ""
          /\ Partitioned(identifier, GetResult(identifier, phc_ok).view.v)

\* a get of a record with a file row, a plot row and a row of unknown name
C25_Witness ==
    /\ ret.op = "get"
    /\ ret.err = ""
    /\ \E r \in RowsOf(ret.identifier) : KnownPlot(r.name)
    /\ \E r \in RowsOf(ret.identifier) : KnownFile(r.name)
    /\ \E r \in RowsOf(ret.identifier) : ~KnownPlot(r.name) /\ ~KnownFile(r.name)
    /\ Filled(ret.view.v.plots, BedPlotsFields) # {}
    /\ Filled(ret.view.v.files, BedFilesFields) # {}

\* the part of the full view a narrower read stands for
ViewPart(op, view) ==
    CASE op = "get_stats" -> view.stats
      [] op = "get_classification" -> view.classification
      [] op = "get_files" -> view.files
      [] op = "get_plots" -> view.plots

\* C26: for every present identifier get_stats, get_classification,
\* get_files and get_plots return exactly the statistics, classification,
\* files partition and plots partition of the view get returns in the same
\* state, every descriptor field included.
C26_ProjectionsOfView ==
    (ret.op \in {"get_stats", "get_classification", "get_files", "get_plots"}
        /\ ret.identifier \in DOMAIN bed) =>
       /\ ret.err = ""
       /\ ret.value = Some(ViewPart(ret.op, GetResult(ret.identifier, TRUE).view.v))

\* C26 without the size of a descriptor: the narrower reads return the
\* parts of the view with every size left out
Unsized(partition) ==
    [k \in DOMAIN partition |->
        IF partition[k].isNone THEN PyNone
        ELSE Some([partition[k].v EXCEPT !.size = PyNone])]

C26_ProjectionsButSize ==
    (ret.op \in {"get_stats", "get_classification", "get_files", "get_plots"}
        /\ ret.identifier \in DOMAIN bed) =>
       /\ ret.err = ""
       /\ ret.op \in {"get_stats", "get_classification"} =>
             ret.value = Some(ViewPart(ret.op, GetResult(ret.identifier, TRUE).view.v))
       /\ ret.op \in {"get_files", "get_plots"} =>
             ret.value = Some(Unsized(ViewPart(ret.op,
                                 GetResult(ret.identifier, TRUE).view.v)))

====
